---- MODULE Spec2Model ----
(***************************************************************************)
(* Progress & statistics engine of the read-bible bot.                     *)
(*                                                                         *)
(* The state is the SQLite database of src/src/database.js (the progress,  *)
(* completions, daily_stats, monthly_stats and overall_stats tables), the  *)
(* in-memory configuration, the cron callbacks of src/src/scheduler.js     *)
(* that are suspended at an await, the pending setTimeout callbacks, and   *)
(* what the Telegram group has received.  Node runs one handler at a time: *)
(* an action is the code a handler runs between two awaits.                *)
(*                                                                         *)
(* Time is a UTC tick counter.  Dates are day numbers: day 0 is Epoch, and *)
(* the 'YYYY-MM-DD' strings of the code compare as the day numbers do.     *)
(***************************************************************************)
EXTENDS Integers, Sequences, FiniteSets

VARIABLES
    now,            \* the clock (UTC ticks since the epoch)
    cronDone,       \* the cron jobs whose callback has started in this tick
    progress,       \* table progress: sequence of rows, in rowid order
    progressSeq,    \* sqlite_sequence of progress: the largest id ever given
    completions,    \* table completions: sequence of rows, in rowid order
    daily_stats,    \* table daily_stats: set of rows, date UNIQUE
    monthly_stats,  \* table monthly_stats: set of rows, (year, month) UNIQUE
    overall_stats,  \* table overall_stats: sequence of rows, in rowid order
    startDate,      \* config.startDate (NULL: start at once)
    startIndex,     \* config.startIndex
    sendTime,       \* config.sendTime: the index in DaySlots of the time of day
    fires,          \* delivery callbacks suspended at an await
    reports,        \* daily-report callbacks suspended at an await
    overalls,       \* generateAndSendOverallStats calls suspended at an await
    timers,         \* pending setTimeout callbacks: sequence of due ticks
    sent,           \* photos the group has received: sequence of indices
    messages        \* report messages the group has received

vars == <<now, cronDone, progress, progressSeq, completions, daily_stats,
          monthly_stats, overall_stats, startDate, startIndex, sendTime, fires,
          reports, overalls, timers, sent, messages>>

tables == <<progress, progressSeq, completions, daily_stats, monthly_stats,
            overall_stats>>

----------------------------------------------------------------------------
(* Bounds of the model *)

\* the clock stops at this tick
MaxTick == 3
\* number of images in the bucket; their indices are 1..TotalImages
TotalImages == 1
\* the pointer is not moved past this index
MaxIndex == TotalImages + 1
\* progress rows ever inserted
MaxSessions == 2
\* rows the completions table may hold
MaxCompletions == 2
\* the greatest index a command is given
MaxArg == 0
----------------------------------------------------------------------------
(* Program constants and inputs *)

\* SQL NULL in a date column
NULL == -1
\* config.timezone ahead of UTC, in ticks
TzOffset == 1
\* the process's own time zone (TZ) ahead of UTC, in ticks
ServerTzOffset == 1
\* setTimeout delay of the overall statistics, in days
OverallDelayDays == 1
\* LIMIT of the top participants
TopLimit == 5

Users == {1, 2}
adminUserIds == {1}
\* what getChatMemberCount may answer (the bot included)
ChatMemberCounts == {3}
\* the times of day a cron job fires at, in config.timezone, in order: a day
\* of the clock has one tick for each
DaySlots == <<"sendTime", "completionReportTime">>
TicksPerDay == Len(DaySlots)
\* the calendar day of day number 0 (a Thursday)
Epoch == [year |-> 2024, month |-> 5, day |-> 30, dow |-> 4]

\* s3Service.js, listImages(): the indices of the images in the bucket
ImageIndices == 1..TotalImages
\* getTotalImageCount() over a bucket whose images have the indices
\* `images`: images.length, or 0 when listing threw
getTotalImageCountOf(images, listed) ==
    IF listed THEN Cardinality(images) ELSE 0
\* getTotalImageCount(): images.length, or 0 when listing threw
getTotalImageCount(listed) == IF listed THEN Cardinality(ImageIndices) ELSE 0

----------------------------------------------------------------------------
(* Clock and calendar *)

\* getTodayDate(): today's date in config.timezone
getTodayDate(t) == (t + TzOffset) \div TicksPerDay

\* the date part of SQLite's CURRENT_TIMESTAMP, which is UTC
CurrentTimestampDate(t) == t \div TicksPerDay

\* the date of `new Date()` in a zone tz ticks ahead of UTC
ZoneDate(t, tz) == (t + tz) \div TicksPerDay

\* the date of `new Date()` in the process's time zone
ServerDate(t) == ZoneDate(t, ServerTzOffset)

\* the slot of the day in config.timezone, where node-cron matches
Slot(t) == (t + TzOffset) % TicksPerDay

IsLeap(y) == (y % 4 = 0 /\ y % 100 # 0) \/ y % 400 = 0

DaysInMonth(y, m) ==
    IF m = 2 THEN (IF IsLeap(y) THEN 29 ELSE 28)
    ELSE IF m \in {4, 6, 9, 11} THEN 30 ELSE 31

NextDay(c) ==
    IF c.day < DaysInMonth(c.year, c.month)
    THEN [c EXCEPT !.day = c.day + 1, !.dow = (c.dow + 1) % 7]
    ELSE IF c.month < 12
    THEN [c EXCEPT !.day = 1, !.month = c.month + 1, !.dow = (c.dow + 1) % 7]
    ELSE [c EXCEPT !.day = 1, !.month = 1, !.year = c.year + 1,
                   !.dow = (c.dow + 1) % 7]

RECURSIVE Calendar(_)
\* year, month, day of month and day of week of day number d
Calendar(d) == IF d = 0 THEN Epoch ELSE NextDay(Calendar(d - 1))

----------------------------------------------------------------------------
(* Sequence helpers *)

Range(s) == {s[i] : i \in 1..Len(s)}

\* the sequences that list every element of S once
Orderings(S) ==
    {s \in [1..Cardinality(S) -> S] : \A i, j \in 1..Cardinality(S) :
                                          i # j => s[i] # s[j]}

Min(a, b) == IF a < b THEN a ELSE b

\* n / d rounded to the nearest integer, as toFixed rounds (n >= 0, d > 0).
\* Rates are kept in tenths of a percent, so (x).toFixed(1) is RoundDiv.
RoundDiv(n, d) == (2 * n + d) \div (2 * d)

----------------------------------------------------------------------------
(* database.js: the progress table *)

\* a database: the five tables and the AUTOINCREMENT counter of progress
Database(p, seq, c, ds, ms, os) ==
    [progress |-> p, progressSeq |-> seq, completions |-> c,
     daily_stats |-> ds, monthly_stats |-> ms, overall_stats |-> os]

db == Database(progress, progressSeq, completions, daily_stats,
               monthly_stats, overall_stats)

\* INSERT INTO progress (current_index, last_sent_date) VALUES (?, NULL)
InsertProgress(p, seq, index, t) ==
    Append(p, [id |-> seq + 1, current_index |-> index,
               last_sent_date |-> NULL, created_at |-> t])

\* SELECT * FROM progress ORDER BY id DESC LIMIT 1 (p is not empty)
getProgress(p) ==
    CHOOSE r \in Range(p) : \A q \in Range(p) : q.id <= r.id

getCurrentIndex(p) == IF p = <<>> THEN 0 ELSE getProgress(p).current_index

\* the UPDATE without its WHERE clause: every session is written
updateProgressAll(p, newIndex, t) ==
    [i \in 1..Len(p) |->
        [p[i] EXCEPT !.current_index = newIndex,
                     !.last_sent_date = getTodayDate(t)]]

\* the UPDATE with created_at = CURRENT_TIMESTAMP among its assignments
updateProgressStamping(p, newIndex, t) ==
    [i \in 1..Len(p) |->
        IF p[i].id = getProgress(p).id
        THEN [p[i] EXCEPT !.current_index = newIndex,
                          !.last_sent_date = getTodayDate(t),
                          !.created_at = t]
        ELSE p[i]]

\* UPDATE progress SET current_index = ?, last_sent_date = ? WHERE id = ?
updateProgress(p, newIndex, t) ==
    IF p = <<>> THEN p
    ELSE [i \in 1..Len(p) |->
            IF p[i].id = getProgress(p).id
            THEN [p[i] EXCEPT !.current_index = newIndex,
                              !.last_sent_date = getTodayDate(t)]
            ELSE p[i]]

\* a reset that overwrites the one progress row there is, instead of
\* starting a session
resetProgressInPlace(p, seq, newIndex, t) ==
    [i \in 1..Len(p) |->
        IF p[i].id = getProgress(p).id
        THEN [p[i] EXCEPT !.current_index = newIndex,
                          !.last_sent_date = NULL]
        ELSE p[i]]

\* resetProgress(newIndex): a new session row; the others are kept
resetProgress(p, seq, newIndex, t) == InsertProgress(p, seq, newIndex, t)

\* deleteAll without its DELETE FROM daily_stats
DeleteAllButDailyStats(d, newIndex, t, n) ==
    [progress      |-> IF n >= 6
                       THEN InsertProgress(<<>>, d.progressSeq, newIndex, t)
                       ELSE IF n >= 5 THEN <<>> ELSE d.progress,
     progressSeq   |-> IF n >= 6 THEN d.progressSeq + 1 ELSE d.progressSeq,
     completions   |-> IF n >= 1 THEN <<>> ELSE d.completions,
     daily_stats   |-> d.daily_stats,
     monthly_stats |-> IF n >= 3 THEN {} ELSE d.monthly_stats,
     overall_stats |-> IF n >= 4 THEN <<>> ELSE d.overall_stats]

\* the database after the first n statements of the deleteAll transaction
DeleteAllStatements(d, newIndex, t, n) ==
    [progress      |-> IF n >= 6
                       THEN InsertProgress(<<>>, d.progressSeq, newIndex, t)
                       ELSE IF n >= 5 THEN <<>> ELSE d.progress,
     progressSeq   |-> IF n >= 6 THEN d.progressSeq + 1 ELSE d.progressSeq,
     completions   |-> IF n >= 1 THEN <<>> ELSE d.completions,
     daily_stats   |-> IF n >= 2 THEN {} ELSE d.daily_stats,
     monthly_stats |-> IF n >= 3 THEN {} ELSE d.monthly_stats,
     overall_stats |-> IF n >= 4 THEN <<>> ELSE d.overall_stats]

\* the statements run one by one outside a transaction: what ran stays
transactionNoRollback(before, after, threw) == after

\* db.transaction(fn)(): commits what fn did, or rolls back when fn threw
transaction(before, after, threw) == IF threw THEN before ELSE after

\* hardResetAllData(newIndex); failAt is the statement that throws (0: none).
\* Answers the database it leaves and the boolean it returns.
hardResetAllData(d, newIndex, t, failAt) ==
    [db |-> transaction(d,
                DeleteAllStatements(d, newIndex, t,
                                    IF failAt = 0 THEN 6 ELSE failAt - 1),
                failAt # 0),
     ok |-> failAt = 0]

----------------------------------------------------------------------------
(* database.js: the completions table *)

\* SELECT id FROM completions WHERE user_id = ? AND date = ?
ExistingCompletion(c, userId, date) ==
    \E i \in 1..Len(c) : c[i].user_id = userId /\ c[i].date = date

\* recordCompletion without its SELECT: every call inserts
recordCompletionNoSelect(c, userId, date, t) ==
    [completions |-> Append(c, [user_id |-> userId, date |-> date,
                                completed_at |-> t]),
     recorded |-> TRUE]

\* recordCompletion(userId, username, firstName, date): the table it leaves
\* and the boolean it returns
recordCompletion(c, userId, date, t) ==
    IF ExistingCompletion(c, userId, date)
    THEN [completions |-> c, recorded |-> FALSE]
    ELSE [completions |-> Append(c, [user_id |-> userId, date |-> date,
                                     completed_at |-> t]),
          recorded |-> TRUE]

\* SELECT COUNT(*) FROM completions WHERE date = ?
getCompletionCount(c, date) ==
    Cardinality({i \in 1..Len(c) : c[i].date = date})

\* currentProgress.created_at.split(' ')[0]
sessionStartDate(p) == CurrentTimestampDate(getProgress(p).created_at)

\* SELECT COUNT(*) FROM completions WHERE user_id = ? AND date >= ?
getUserCompletionCount(c, p, userId) ==
    IF p = <<>>
    THEN Cardinality({i \in 1..Len(c) : c[i].user_id = userId})
    ELSE Cardinality({i \in 1..Len(c) : /\ c[i].user_id = userId
                                         /\ c[i].date >= sessionStartDate(p)})

\* the rows of SELECT user_id, COUNT(*) as count ... GROUP BY user_id
TopGroups(c, p) ==
    {[user_id |-> u, count |-> getUserCompletionCount(c, p, u)] :
        u \in {c[i].user_id : i \in {j \in 1..Len(c) :
                  p = <<>> \/ c[j].date >= sessionStartDate(p)}}}

\* the query without its ORDER BY: the groups in any order, cut at the limit
getTopParticipantsUnordered(c, p, limit) ==
    {SubSeq(s, 1, Min(limit, Len(s))) : s \in Orderings(TopGroups(c, p))}

\* getTopParticipants(limit): ORDER BY count DESC LIMIT ?. SQL leaves the
\* order of equal counts open, so this is the set of lists it may return.
getTopParticipants(c, p, limit) ==
    {SubSeq(s, 1, Min(limit, Len(s))) :
        s \in {o \in Orderings(TopGroups(c, p)) :
                 \A i, j \in 1..Len(o) : i < j => o[i].count >= o[j].count}}

----------------------------------------------------------------------------
(* database.js: the statistics tables *)

\* a plain INSERT INTO daily_stats on a table without the UNIQUE constraint
saveDailyStatsInsert(ds, date, totalMembers, completedCount, completionRate) ==
    ds \cup {[date |-> date, total_members |-> totalMembers,
              completed_count |-> completedCount,
              completion_rate |-> completionRate]}

\* INSERT OR REPLACE INTO daily_stats: date is UNIQUE
saveDailyStats(ds, date, totalMembers, completedCount, completionRate) ==
    {r \in ds : r.date # date} \cup
    {[date |-> date, total_members |-> totalMembers,
      completed_count |-> completedCount,
      completion_rate |-> completionRate]}

\* getDailyStats(date): the rows of SELECT * FROM daily_stats WHERE date = ?
getDailyStats(ds, date) == {r \in ds : r.date = date}

\* getAllDailyStats without its WHERE clause
getAllDailyStatsUnscoped(ds, p) == ds

\* getAllDailyStats(): SELECT * FROM daily_stats WHERE date >= ? ORDER BY date
getAllDailyStats(ds, p) ==
    IF p = <<>> THEN ds ELSE {r \in ds : r.date >= sessionStartDate(p)}

RECURSIVE LatestRows(_, _)
\* the n rows of S with the greatest dates (ORDER BY date DESC LIMIT n)
LatestRows(S, n) ==
    IF n = 0 \/ S = {} THEN {}
    ELSE LET r == CHOOSE x \in S : \A y \in S : y.date <= x.date
         IN {r} \cup LatestRows(S \ {r}, n - 1)

\* getRecentDailyStats(days)
getRecentDailyStats(ds, p, days) == LatestRows(getAllDailyStats(ds, p), days)

RECURSIVE SumCompleted(_)
SumCompleted(S) ==
    IF S = {} THEN 0
    ELSE LET r == CHOOSE x \in S : TRUE
         IN r.completed_count + SumCompleted(S \ {r})

RECURSIVE SumRate(_)
SumRate(S) ==
    IF S = {} THEN 0
    ELSE LET r == CHOOSE x \in S : TRUE
         IN r.completion_rate + SumRate(S \ {r})

RECURSIVE MonthStart(_, _)
\* the day number of `${year}-${month}-01`
MonthStart(y, m) ==
    IF y = Epoch.year /\ m = Epoch.month THEN 1 - Epoch.day
    ELSE IF y > Epoch.year \/ (y = Epoch.year /\ m > Epoch.month)
    THEN (IF m = 1 THEN MonthStart(y - 1, 12) + DaysInMonth(y - 1, 12)
          ELSE MonthStart(y, m - 1) + DaysInMonth(y, m - 1))
    ELSE (IF m = 12 THEN MonthStart(y + 1, 1) - DaysInMonth(y, 12)
          ELSE MonthStart(y, m + 1) - DaysInMonth(y, m))

\* the rows calculateMonthlyStats aggregates: date >= ? AND date < ?
MonthlyRows(ds, p, year, month) ==
    LET monthStart == MonthStart(year, month)
        endDate == IF month = 12 THEN MonthStart(year + 1, 1)
                   ELSE MonthStart(year, month + 1)
        effectiveStartDate ==
            IF p = <<>> THEN monthStart
            ELSE IF monthStart > sessionStartDate(p) THEN monthStart
            ELSE sessionStartDate(p)
    IN {r \in ds : r.date >= effectiveStartDate /\ r.date < endDate}

\* calculateMonthlyStats without its `reading_days === 0` check
calculateMonthlyStatsZero(ds, p, year, month) ==
    LET rows == MonthlyRows(ds, p, year, month)
    IN {[reading_days |-> Cardinality(rows),
         total_days |-> DaysInMonth(year, month),
         total_completions |-> SumCompleted(rows),
         average_rate |-> IF rows = {} THEN 0
                          ELSE RoundDiv(SumRate(rows), Cardinality(rows))]}

\* calculateMonthlyStats(year, month): the set holding its result, empty
\* when it returns null
calculateMonthlyStats(ds, p, year, month) ==
    LET rows == MonthlyRows(ds, p, year, month)
    IN IF Cardinality(rows) = 0 THEN {}
       ELSE {[reading_days |-> Cardinality(rows),
              total_days |-> DaysInMonth(year, month),
              total_completions |-> SumCompleted(rows),
              average_rate |-> RoundDiv(SumRate(rows), Cardinality(rows))]}

\* INSERT OR REPLACE INTO monthly_stats: (year, month) is UNIQUE
saveMonthlyStats(ms, year, month, stats) ==
    {r \in ms : ~(r.year = year /\ r.month = month)} \cup
    {[year |-> year, month |-> month, total_days |-> stats.total_days,
      reading_days |-> stats.reading_days,
      total_completions |-> stats.total_completions,
      average_rate |-> stats.average_rate]}

\* getMonthlyStats(year, month)
getMonthlyStats(ms, year, month) ==
    {r \in ms : r.year = year /\ r.month = month}

\* INSERT OR REPLACE on a table that keeps one row
saveOverallStatsReplace(os, stats) == <<stats>>

\* INSERT INTO overall_stats
saveOverallStats(os, stats) == Append(os, stats)

----------------------------------------------------------------------------
(* utils.js *)

\* the check with every member of the group let through
isAdminAnyMember(userId) == userId \in Users

isAdmin(userId) == userId \in adminUserIds

\* removes the i-th element of a sequence
RemoveAt(s, i) == SubSeq(s, 1, i - 1) \o SubSeq(s, i + 1, Len(s))

----------------------------------------------------------------------------
(* The initial state: initializeDatabase() on an empty database *)

Init ==
    /\ now = 0
    /\ cronDone = {}
    /\ progress = InsertProgress(<<>>, 0, 0, 0)
    /\ progressSeq = 1
    /\ completions = <<>>
    /\ daily_stats = {}
    /\ monthly_stats = {}
    /\ overall_stats = <<>>
    /\ startDate = NULL
    /\ startIndex = 0
    /\ sendTime = 1
    /\ fires = {}
    /\ reports = {}
    /\ overalls = <<>>
    /\ timers = <<>>
    /\ sent = <<>>
    /\ messages = {}

----------------------------------------------------------------------------
(* scheduler.js: the clock and the cron expressions *)

\* the cron jobs whose expression matches tick t in config.timezone
DueJobs(t) ==
    LET today == Calendar(getTodayDate(t))
        slot == DaySlots[Slot(t) + 1]
    IN  (IF slot = "sendTime" /\ today.dow \in 1..6 THEN {"reading"} ELSE {})
        \cup (IF slot = "completionReportTime" THEN {"report"} ELSE {})
        \cup (IF slot = "completionReportTime" /\ today.day \in 28..31
              THEN {"monthly"} ELSE {})

\* time passes once the callbacks of `jobs` that are due now have started
\* and every suspended callback has run to its end: an await (an S3 or a
\* Telegram request) answers before the next slot of the day
Tick(jobs) ==
    /\ now < MaxTick
    /\ (DueJobs(now) \cap jobs) \subseteq cronDone
    /\ fires = {} /\ reports = {} /\ overalls = <<>>
    /\ "overall" \in jobs => \A i \in 1..Len(timers) : timers[i] > now
    /\ now' = now + 1
    /\ cronDone' = {}
    /\ UNCHANGED <<tables, startDate, startIndex, sendTime, fires, reports, overalls,
                   timers, sent, messages>>

----------------------------------------------------------------------------
(* scheduler.js: scheduleDailyReading *)

\* the callback without its start-date check
ReadingStartUnchecked ==
    /\ "reading" \in DueJobs(now) \ cronDone
    /\ cronDone' = cronDone \cup {"reading"}
    /\ fires' = fires \cup
                {[day |-> getTodayDate(now),
                  currentIndex |-> getCurrentIndex(progress)]}
    /\ UNCHANGED <<now, tables, startDate, startIndex, sendTime, reports, overalls,
                   timers, sent, messages>>

\* the callback up to `await getTotalImageCount()`
ReadingStart ==
    /\ "reading" \in DueJobs(now) \ cronDone
    /\ cronDone' = cronDone \cup {"reading"}
    /\ IF startDate # NULL /\ getTodayDate(now) < startDate
       THEN UNCHANGED fires
       ELSE fires' = fires \cup
                {[day |-> getTodayDate(now),
                  currentIndex |-> getCurrentIndex(progress)]}
    /\ UNCHANGED <<now, tables, startDate, startIndex, sendTime, reports, overalls,
                   timers, sent, messages>>

\* the callback with `nextIndex > totalCount` as its last check: the end of
\* the campaign is never seen
scheduleDailyReadingNoLast(currentIndex, listed, downloaded, delivered) ==
    LET totalCount == getTotalImageCount(listed)
        nextIndex == currentIndex + 1
    IN IF currentIndex >= totalCount THEN "allSent"
       ELSE IF ~(downloaded /\ nextIndex \in ImageIndices) THEN "noImage"
       ELSE IF ~delivered THEN "sendFailed"
       ELSE IF nextIndex > totalCount THEN "lastSent"
       ELSE "sent"

\* the callback with updateProgress ahead of sendPhoto: a send that throws
\* has advanced the pointer already
scheduleDailyReadingEager(currentIndex, listed, downloaded, delivered) ==
    LET totalCount == getTotalImageCount(listed)
        nextIndex == currentIndex + 1
    IN IF currentIndex >= totalCount THEN "allSent"
       ELSE IF ~(downloaded /\ nextIndex \in ImageIndices) THEN "noImage"
       ELSE IF nextIndex = totalCount THEN "lastSent"
       ELSE "sent"

\* how the callback ends over a bucket whose images have the indices
\* `images` (the indices come from the file names and need not be 1..n):
\* totalCount is the number of images, the image fetched is the one whose
\* index is currentIndex + 1
scheduleDailyReadingOf(images, currentIndex, listed, downloaded, delivered) ==
    LET totalCount == getTotalImageCountOf(images, listed)
        nextIndex == currentIndex + 1
    IN IF currentIndex >= totalCount THEN "allSent"
       ELSE IF ~(downloaded /\ nextIndex \in images) THEN "noImage"
       ELSE IF ~delivered THEN "sendFailed"
       ELSE IF nextIndex = totalCount THEN "lastSent"
       ELSE "sent"

\* how the callback ends once currentIndex is read: getTotalImageCount()
\* answers (0 when listing threw), downloadImageByIndex answers (null when it
\* failed or the bucket has no such image), sendPhoto delivers or throws
scheduleDailyReading(currentIndex, listed, downloaded, delivered) ==
    LET totalCount == getTotalImageCount(listed)
        nextIndex == currentIndex + 1
    IN IF currentIndex >= totalCount THEN "allSent"
       ELSE IF ~(downloaded /\ nextIndex \in ImageIndices) THEN "noImage"
       ELSE IF ~delivered THEN "sendFailed"
       ELSE IF nextIndex = totalCount THEN "lastSent"
       ELSE "sent"

\* the rest of the callback, which ends as `end` tells.  It touches no
\* shared state between the read of currentIndex and updateProgress, so its
\* three awaits are one step.
ReadingEnd(f, end) ==
    /\ f \in fires
    /\ fires' = fires \ {f}
    /\ LET nextIndex == f.currentIndex + 1
       IN IF end \in {"sent", "lastSent"}
          THEN /\ sent' = Append(sent, nextIndex)
               /\ progress' = updateProgress(progress, nextIndex, now)
               /\ timers' = IF end = "lastSent"
                            THEN Append(timers,
                                        now + OverallDelayDays * TicksPerDay)
                            ELSE timers
          ELSE UNCHANGED <<sent, progress, timers>>
    /\ UNCHANGED <<now, cronDone, progressSeq, completions, daily_stats,
                   monthly_stats, overall_stats, startDate, startIndex, sendTime,
                   reports, overalls, messages>>

\* the rest of a callback whose sendPhoto delivered and whose
\* updateProgress threw (the UPDATE failed: database busy, disk full, I/O
\* error): the photo is in the group, the pointer is where it was, and the
\* catch block is entered before the end of the campaign is looked at
ReadingFinishUnwritten(f) ==
    /\ f \in fires
    /\ scheduleDailyReading(f.currentIndex, TRUE, TRUE, TRUE)
          \in {"sent", "lastSent"}
    /\ fires' = fires \ {f}
    /\ sent' = Append(sent, f.currentIndex + 1)
    /\ UNCHANGED <<now, cronDone, tables, startDate, startIndex, sendTime,
                   reports, overalls, timers, messages>>

\* the rest of the callback over the bucket 1..TotalImages
ReadingFinish(f, listed, downloaded, delivered) ==
    ReadingEnd(f, scheduleDailyReading(f.currentIndex, listed, downloaded,
                                       delivered))

\* the rest of the callback over a bucket whose images have the indices
\* `images`
ReadingFinishOf(images, f, listed, downloaded, delivered) ==
    ReadingEnd(f, scheduleDailyReadingOf(images, f.currentIndex, listed,
                                         downloaded, delivered))

----------------------------------------------------------------------------
(* scheduler.js: scheduleDailyReport *)

\* the callback up to `await getChatMemberCount()`; the monthly job of the
\* same evening (23:55) starts before it (23:59)
ReportStart ==
    /\ "report" \in DueJobs(now) \ cronDone
    /\ "monthly" \in DueJobs(now) => "monthly" \in cronDone
    /\ cronDone' = cronDone \cup {"report"}
    /\ reports' = reports \cup {[today |-> getTodayDate(now)]}
    /\ UNCHANGED <<now, tables, startDate, startIndex, sendTime, fires, overalls,
                   timers, sent, messages>>

\* the division without its guard: no number when nobody is counted
completionRateUnguarded(completedCount, totalMembers) ==
    IF totalMembers # 0 THEN RoundDiv(completedCount * 1000, totalMembers)
    ELSE NULL

\* completionRate, in tenths of a percent
completionRate(completedCount, totalMembers) ==
    IF totalMembers > 0 THEN RoundDiv(completedCount * 1000, totalMembers)
    ELSE 0

\* the group's size as reported, the bot counted in
totalMembersWithBot(chatMemberCount) == chatMemberCount

\* totalMembers: chatMemberCount - 1 (the bot is left out), 0 when
\* getChatMemberCount threw (chatMemberCount = 0)
totalMembers(chatMemberCount) ==
    IF chatMemberCount = 0 THEN 0 ELSE chatMemberCount - 1

\* getChatMemberCount answers chatMemberCount (0: it threw), to the end of
\* the callback; stored tells whether the INSERT of saveDailyStats went
\* through (when it throws, saveDailyStats logs and returns false, and the
\* callback does not look at what it returns); posted tells whether
\* sendMessage delivered the report
ReportMembersWith(r, chatMemberCount, stored, posted) ==
    /\ r \in reports
    /\ reports' = reports \ {r}
    /\ LET members == totalMembers(chatMemberCount)
           completedCount == getCompletionCount(completions, r.today)
       IN daily_stats' = IF stored
                         THEN saveDailyStats(daily_stats, r.today, members,
                                  completedCount,
                                  completionRate(completedCount, members))
                         ELSE daily_stats
    /\ messages' = IF posted
                   THEN messages \cup
                          {[kind |-> "daily", date |-> r.today,
                            completed |-> getCompletionCount(completions,
                                                             r.today)]}
                   ELSE messages
    /\ UNCHANGED <<now, cronDone, progress, progressSeq, completions,
                   monthly_stats, overall_stats, startDate, startIndex, sendTime,
                   fires, overalls, timers, sent>>

\* the callback when the database takes the row
ReportMembers(r, chatMemberCount, posted) ==
    ReportMembersWith(r, chatMemberCount, TRUE, posted)

----------------------------------------------------------------------------
(* scheduler.js: scheduleMonthlyReport *)

\* the whole callback in a process whose time zone (TZ) is tz ticks ahead of
\* UTC: `new Date()` and its getters answer in that zone; posted tells
\* whether sendMessage delivered the report, stored whether the INSERT of
\* saveMonthlyStats went through (when it throws, saveMonthlyStats logs and
\* returns false, and the callback does not look at what it returns)
MonthlyReportWith(tz, stored, posted) ==
    /\ "monthly" \in DueJobs(now) \ cronDone
    /\ cronDone' = cronDone \cup {"monthly"}
    /\ LET today == Calendar(ZoneDate(now, tz))
           tomorrow == Calendar(ZoneDate(now, tz) + 1)
           stats == calculateMonthlyStats(daily_stats, progress,
                                          today.year, today.month)
       IN IF tomorrow.day = 1 /\ stats # {}
          THEN /\ monthly_stats' =
                     IF stored
                     THEN saveMonthlyStats(monthly_stats, today.year,
                                           today.month,
                                           CHOOSE x \in stats : TRUE)
                     ELSE monthly_stats
               /\ messages' =
                     IF posted
                     THEN messages \cup
                            {[kind |-> "monthly", date |-> ZoneDate(now, tz),
                              completed |-> (CHOOSE x \in stats :
                                               TRUE).total_completions]}
                     ELSE messages
          ELSE /\ posted /\ stored
               /\ UNCHANGED <<monthly_stats, messages>>
    /\ UNCHANGED <<now, progress, progressSeq, completions, daily_stats,
                   overall_stats, startDate, startIndex, sendTime, fires, reports,
                   overalls, timers, sent>>

\* the callback when the database takes the row
MonthlyReportIn(tz, posted) == MonthlyReportWith(tz, TRUE, posted)

\* the callback in the process zone the image is built with
MonthlyReport(posted) == MonthlyReportIn(ServerTzOffset, posted)

----------------------------------------------------------------------------
(* scheduler.js: generateAndSendOverallStats *)

RECURSIVE SumMembers(_)
SumMembers(S) ==
    IF S = {} THEN 0
    ELSE LET r == CHOOSE x \in S : TRUE
         IN r.total_members + SumMembers(S \ {r})

\* the rate of the whole period: completions over memberships
averageRateWeighted(allDailyStats) ==
    IF SumMembers(allDailyStats) > 0
    THEN RoundDiv(SumCompleted(allDailyStats) * 1000,
                  SumMembers(allDailyStats))
    ELSE 0

\* averageRate: the mean of the days' rates, toFixed(1)
averageRate(allDailyStats) ==
    LET totalDays == Cardinality(allDailyStats)
    IN IF totalDays > 0 THEN RoundDiv(SumRate(allDailyStats), totalDays)
       ELSE 0

\* a setTimeout callback comes due: the call up to `await
\* getTotalImageCount()`
OverallStart(i) ==
    /\ i \in 1..Len(timers) /\ timers[i] <= now
    /\ timers' = RemoveAt(timers, i)
    /\ LET allDailyStats == getAllDailyStats(daily_stats, progress)
           totalDays == Cardinality(allDailyStats)
       IN overalls' = Append(overalls,
              [pc |-> "count",
               start_date |-> getProgress(progress).created_at,
               end_date |-> getTodayDate(now),
               total_days |-> totalDays,
               total_readings |-> 0,
               total_completions |-> SumCompleted(allDailyStats),
               average_rate |-> averageRate(allDailyStats),
               top_participants |-> <<>>])
    /\ UNCHANGED <<now, cronDone, tables, startDate, startIndex, sendTime, fires,
                   reports, sent, messages>>

\* getTotalImageCount() answers, up to the end of `await sendMessage()`,
\* which delivers the message or throws
OverallCount(i, listed, top, posted) ==
    /\ i \in 1..Len(overalls) /\ overalls[i].pc = "count"
    /\ top \in getTopParticipants(completions, progress, TopLimit)
    /\ IF posted
       THEN /\ overalls' =
                  [overalls EXCEPT ![i].pc = "save",
                       ![i].total_readings = getTotalImageCount(listed),
                       ![i].top_participants = top]
            /\ messages' = messages \cup
                  {[kind |-> "overall", date |-> overalls[i].end_date,
                    completed |-> overalls[i].total_completions]}
       ELSE /\ overalls' = RemoveAt(overalls, i)
            /\ UNCHANGED messages
    /\ UNCHANGED <<now, cronDone, tables, startDate, startIndex, sendTime, fires,
                   reports, timers, sent>>

\* after the message: saveOverallStats
OverallSave(i) ==
    /\ i \in 1..Len(overalls) /\ overalls[i].pc = "save"
    /\ overalls' = RemoveAt(overalls, i)
    /\ overall_stats' = saveOverallStats(overall_stats,
           [start_date |-> overalls[i].start_date,
            end_date |-> overalls[i].end_date,
            total_days |-> overalls[i].total_days,
            total_readings |-> overalls[i].total_readings,
            total_completions |-> overalls[i].total_completions,
            average_rate |-> overalls[i].average_rate,
            top_participants |-> overalls[i].top_participants])
    /\ UNCHANGED <<now, cronDone, progress, progressSeq, completions,
                   daily_stats, monthly_stats, startDate, startIndex, sendTime, fires,
                   reports, timers, sent, messages>>

----------------------------------------------------------------------------
(* bot.js: the message and command handlers *)

\* bot.on("text") with a completion keyword, from user u, while the table
\* holds no more than max rows
TextWithin(u, max) ==
    LET r == recordCompletion(completions, u, getTodayDate(now), now)
    IN /\ Len(r.completions) <= max
       /\ completions' = r.completions
       /\ UNCHANGED <<now, cronDone, progress, progressSeq, daily_stats,
                      monthly_stats, overall_stats, startDate, startIndex, sendTime,
                      fires, reports, overalls, timers, sent, messages>>

Text(u) == TextWithin(u, MaxCompletions)

\* /status: the count it shows as remaining, totalCount - currentIndex
statusRemaining(p, listed) == getTotalImageCount(listed) - getCurrentIndex(p)

\* what /reset answers: newIndex is parseInt's result (negative stands for
\* NaN too)
resetReply(u, newIndex) ==
    IF ~isAdmin(u) THEN "denied"
    ELSE IF newIndex < 0 THEN "invalid"
    ELSE "ok"

\* /reset [index] from user u
Reset(u, newIndex) ==
    /\ IF resetReply(u, newIndex) = "ok"
       THEN /\ progressSeq < MaxSessions
            /\ progress' = resetProgress(progress, progressSeq, newIndex, now)
            /\ progressSeq' = progressSeq + 1
       ELSE UNCHANGED <<progress, progressSeq>>
    /\ UNCHANGED <<now, cronDone, completions, daily_stats, monthly_stats,
                   overall_stats, startDate, startIndex, sendTime, fires, reports,
                   overalls, timers, sent, messages>>

\* the answer of a /hardreset that does not look for CONFIRM
hardresetReplyUnconfirmed(u, confirm, newIndex, success) ==
    IF ~isAdmin(u) THEN "denied"
    ELSE IF newIndex < 0 THEN "invalid"
    ELSE IF success THEN "ok"
    ELSE "failed"

\* what /hardreset answers, given what hardResetAllData returned
hardresetReply(u, confirm, newIndex, success) ==
    IF ~isAdmin(u) THEN "denied"
    ELSE IF ~confirm THEN "warning"
    ELSE IF newIndex < 0 THEN "invalid"
    ELSE IF success THEN "ok"
    ELSE "failed"

\* a /hardreset that gives way to other handlers after its five DELETEs,
\* before the INSERT of the new session
HardResetDeleting(u, confirm, newIndex, failAt) ==
    /\ IF hardresetReply(u, confirm, newIndex, TRUE) = "ok"
       THEN LET d == DeleteAllStatements(db, newIndex, now, 5)
            IN /\ progress' = d.progress
               /\ progressSeq' = d.progressSeq
               /\ completions' = d.completions
               /\ daily_stats' = d.daily_stats
               /\ monthly_stats' = d.monthly_stats
               /\ overall_stats' = d.overall_stats
       ELSE UNCHANGED tables
    /\ UNCHANGED <<now, cronDone, startDate, startIndex, sendTime, fires,
                   reports, overalls, timers, sent, messages>>

\* /hardreset [CONFIRM] [index] from user u; failAt is the statement of the
\* transaction that throws (0: none)
HardReset(u, confirm, newIndex, failAt) ==
    /\ IF hardresetReply(u, confirm, newIndex, TRUE) = "ok"
       THEN LET r == hardResetAllData(db, newIndex, now, failAt)
            IN /\ r.db.progressSeq <= MaxSessions
               /\ progress' = r.db.progress
               /\ progressSeq' = r.db.progressSeq
               /\ completions' = r.db.completions
               /\ daily_stats' = r.db.daily_stats
               /\ monthly_stats' = r.db.monthly_stats
               /\ overall_stats' = r.db.overall_stats
       ELSE UNCHANGED tables
    /\ UNCHANGED <<now, cronDone, startDate, startIndex, sendTime, fires, reports,
                   overalls, timers, sent, messages>>

\* /skip from user u
Skip(u) ==
    /\ IF isAdmin(u)
       THEN LET currentIndex == getCurrentIndex(progress)
                newIndex == currentIndex + 1
            IN /\ newIndex <= MaxIndex
               /\ progress' = updateProgress(progress, newIndex, now)
       ELSE UNCHANGED progress
    /\ UNCHANGED <<now, cronDone, progressSeq, completions, daily_stats,
                   monthly_stats, overall_stats, startDate, startIndex, sendTime,
                   fires, reports, overalls, timers, sent, messages>>

\* a time argument of /setstart that fails the HH:MM check
BadTime == 0

\* the answer of a /setstart that checks neither the time nor the index
setstartReplyDateOnly(u, date, wellFormed, time, index) ==
    IF ~isAdmin(u) THEN "denied"
    ELSE IF date # NULL /\ ~wellFormed THEN "invalid"
    ELSE IF time # <<>> THEN "error"
    ELSE "ok"

\* what /setstart <date> [time [index]] answers: date is NULL for "null",
\* wellFormed tells whether it passes the YYYY-MM-DD check; time is <<>> when
\* no time or "null" is given, <<BadTime>> when it fails the HH:MM check and
\* <<the index in DaySlots>> otherwise; index is <<>> when no index is given
\* and <<parseInt's result>> otherwise.  With a new time the handler calls
\* restartAllSchedules, a name scheduler.js does not define: the call throws
\* and the catch block answers
setstartReplyWith(u, date, wellFormed, time, index) ==
    IF ~isAdmin(u) THEN "denied"
    ELSE IF date # NULL /\ ~wellFormed THEN "invalid"
    ELSE IF time # <<>> /\ time[1] = BadTime THEN "invalid"
    ELSE IF index # <<>> /\ index[1] < 0 THEN "invalid"
    ELSE IF time # <<>> THEN "error"
    ELSE "ok"

setstartReply(u, date, wellFormed, index) ==
    setstartReplyWith(u, date, wellFormed, <<>>, index)

\* /setstart from user u.  The cron task of scheduleDailyReading is the one
\* registered at startup: cron.schedule's return value is dropped and no code
\* stops or replaces the task
SetStartWith(u, date, wellFormed, time, index) ==
    /\ IF setstartReplyWith(u, date, wellFormed, time, index)
             \in {"ok", "error"}
       THEN /\ startDate' = date
            /\ startIndex' = IF index # <<>> THEN index[1] ELSE startIndex
            /\ sendTime' = IF time # <<>> THEN time[1] ELSE sendTime
            /\ progress' = IF index # <<>>
                           THEN updateProgress(progress, index[1], now)
                           ELSE progress
       ELSE UNCHANGED <<progress, startDate, startIndex, sendTime>>
    /\ UNCHANGED <<now, cronDone, progressSeq, completions, daily_stats,
                   monthly_stats, overall_stats, fires, reports, overalls,
                   timers, sent, messages>>

\* /setstart from user u, without a new send time
SetStart(u, date, wellFormed, index) ==
    SetStartWith(u, date, wellFormed, <<>>, index)

\* what /send <index> answers: index is parseInt's result (0 stands for no
\* argument and for NaN); validateIndex lists the bucket (invalid when listing
\* threw or the index is outside the bucket's first and last), then
\* downloadImageByIndex and replyWithPhoto answer
sendReply(u, index, listed, downloaded, delivered) ==
    IF ~isAdmin(u) THEN "denied"
    ELSE IF index = 0 THEN "usage"
    ELSE IF ~listed \/ ImageIndices = {} THEN "invalid"
    ELSE IF \A k \in ImageIndices : index < k THEN "invalid"
    ELSE IF \A k \in ImageIndices : index > k THEN "invalid"
    ELSE IF ~(downloaded /\ index \in ImageIndices) THEN "notFound"
    ELSE IF ~delivered THEN "error"
    ELSE "ok"

\* /send <index> from user u: the photo goes to the chat the command came
\* from (inGroup: the group); the pointer stays
Send(u, index, inGroup, listed, downloaded, delivered) ==
    /\ IF sendReply(u, index, listed, downloaded, delivered) = "ok" /\ inGroup
       THEN /\ Len(sent) < MaxIndex
            /\ sent' = Append(sent, index)
       ELSE UNCHANGED sent
    /\ UNCHANGED <<now, cronDone, tables, startDate, startIndex, sendTime,
                   fires, reports, overalls, timers, messages>>

\* what /test answers, given what testS3Connection returned
testReply(u, connected) ==
    IF ~isAdmin(u) THEN "denied"
    ELSE IF connected THEN "ok"
    ELSE "failed"

\* /test from user u
Test(u) == UNCHANGED vars

\* what /scheduleinfo answers: getScheduleInfo is a name scheduler.js does
\* not define, the call throws and the catch block answers
scheduleinfoReply(u) ==
    IF ~isAdmin(u) THEN "denied" ELSE "error"

\* /scheduleinfo from user u
ScheduleInfo(u) == UNCHANGED vars

----------------------------------------------------------------------------
(* Inputs of the handlers *)

\* what parseInt may give for an index argument
IndexArgs == -1..MaxArg
\* the dates /setstart is given
DateArgs == {NULL, 2}
\* the time arguments /setstart is given: none, malformed, a time of day
TimeArgs == {<<>>, <<BadTime>>} \cup {<<s>> : s \in 1..TicksPerDay}
\* the statement of deleteAll that throws (0: none)
FailPoints == 0..6

Jobs == {"reading", "report", "monthly", "overall"}

Next ==
    \/ Tick(Jobs)
    \/ ReadingStart
    \/ \E f \in fires, listed, downloaded, delivered \in BOOLEAN :
          ReadingFinish(f, listed, downloaded, delivered)
    \/ ReportStart
    \/ \E r \in reports, n \in ChatMemberCounts \cup {0}, posted \in BOOLEAN :
          ReportMembers(r, n, posted)
    \/ \E posted \in BOOLEAN : MonthlyReport(posted)
    \/ \E i \in 1..Len(timers) : OverallStart(i)
    \/ \E i \in 1..Len(overalls), listed, posted \in BOOLEAN :
          \E top \in getTopParticipants(completions, progress, TopLimit) :
             OverallCount(i, listed, top, posted)
    \/ \E i \in 1..Len(overalls) : OverallSave(i)
    \/ \E u \in Users : Text(u)
    \/ \E u \in Users, k \in IndexArgs : Reset(u, k)
    \/ \E u \in Users, confirm \in BOOLEAN, k \in IndexArgs,
          failAt \in FailPoints : HardReset(u, confirm, k, failAt)
    \/ \E u \in Users : Skip(u)
    \/ \E u \in Users, date \in DateArgs, wellFormed \in BOOLEAN,
          time \in TimeArgs,
          index \in {<<>>} \cup {<<k>> : k \in IndexArgs} :
          SetStartWith(u, date, wellFormed, time, index)
    \/ \E u \in Users, k \in IndexArgs,
          inGroup, listed, downloaded, delivered \in BOOLEAN :
          Send(u, k, inGroup, listed, downloaded, delivered)
    \/ \E u \in Users : Test(u)
    \/ \E u \in Users : ScheduleInfo(u)

Spec == Init /\ [][Next]_vars

\* the pointer: the delivery job, whose S3 and Telegram requests may fail,
\* and the admin's commands that write it, with arguments they accept
NextPointer ==
    \/ Tick({"reading"})
    \/ ReadingStart
    \/ \E f \in fires, listed, downloaded, delivered \in BOOLEAN :
          ReadingFinish(f, listed, downloaded, delivered)
    \/ \E u \in adminUserIds, k \in 0..MaxArg : Reset(u, k)
    \/ \E u \in adminUserIds, k \in 0..MaxArg : HardReset(u, TRUE, k, 0)
    \/ \E u \in adminUserIds : Skip(u)
    \/ \E u \in adminUserIds, date \in DateArgs,
          index \in {<<>>} \cup {<<k>> : k \in 0..MaxArg} :
          SetStart(u, date, TRUE, index)

SpecPointer == Init /\ [][NextPointer]_vars

\* the delivery job, whose S3 and Telegram requests may fail, between the
\* admin's /skip, /reset and /hardreset
NextDelivery ==
    \/ Tick({"reading"})
    \/ ReadingStart
    \/ \E f \in fires, listed, downloaded, delivered \in BOOLEAN :
          ReadingFinish(f, listed, downloaded, delivered)
    \/ \E u \in adminUserIds, k \in 0..MaxArg : Reset(u, k)
    \/ \E u \in adminUserIds, k \in 0..MaxArg : HardReset(u, TRUE, k, 0)
    \/ \E u \in adminUserIds : Skip(u)

SpecDelivery == Init /\ [][NextDelivery]_vars

\* the ledger while Telegram answers: acknowledgements, the daily and
\* monthly reports that aggregate them, and /reset
NextLedger ==
    \/ Tick({"report", "monthly"})
    \/ ReportStart
    \/ \E r \in reports, n \in ChatMemberCounts : ReportMembers(r, n, TRUE)
    \/ MonthlyReport(TRUE)
    \/ \E u \in Users : Text(u)
    \/ \E u \in Users, k \in IndexArgs : Reset(u, k)

SpecLedger == Init /\ [][NextLedger]_vars

\* the whole engine while the collaborators and the storage answer: every
\* job and timer, acknowledgements, and the admin's reset and hard reset
NextEngine ==
    \/ Tick(Jobs)
    \/ ReadingStart
    \/ \E f \in fires : ReadingFinish(f, TRUE, TRUE, TRUE)
    \/ ReportStart
    \/ \E r \in reports, n \in ChatMemberCounts : ReportMembers(r, n, TRUE)
    \/ MonthlyReport(TRUE)
    \/ \E i \in 1..Len(timers) : OverallStart(i)
    \/ \E i \in 1..Len(overalls) :
          \E top \in getTopParticipants(completions, progress, TopLimit) :
             OverallCount(i, TRUE, top, TRUE)
    \/ \E i \in 1..Len(overalls) : OverallSave(i)
    \/ \E u \in Users : Text(u)
    \/ \E u \in adminUserIds, k \in 0..TotalImages : Reset(u, k)
    \/ \E u \in adminUserIds, k \in 0..TotalImages : HardReset(u, TRUE, k, 0)

SpecEngine == Init /\ [][NextEngine]_vars

\* acknowledgements between deliveries and /reset
NextAcknowledge ==
    \/ Tick({"reading"})
    \/ ReadingStart
    \/ \E f \in fires : ReadingFinish(f, TRUE, TRUE, TRUE)
    \/ \E u \in Users : Text(u)
    \/ \E u \in adminUserIds, k \in 0..MaxArg : Reset(u, k)

SpecAcknowledge == Init /\ [][NextAcknowledge]_vars

\* what getChatMemberCount answers in a group whose size changes
GroupSizes == {2} \cup ChatMemberCounts

\* the campaign's statistics while the collaborators answer: deliveries,
\* the reports of a group whose size changes, the overall-statistics job,
\* acknowledgements and /reset
NextOverall ==
    \/ Tick(Jobs)
    \/ ReadingStart
    \/ \E f \in fires : ReadingFinish(f, TRUE, TRUE, TRUE)
    \/ ReportStart
    \/ \E r \in reports, n \in GroupSizes : ReportMembers(r, n, TRUE)
    \/ MonthlyReport(TRUE)
    \/ \E i \in 1..Len(timers) : OverallStart(i)
    \/ \E i \in 1..Len(overalls) :
          \E top \in getTopParticipants(completions, progress, TopLimit) :
             OverallCount(i, TRUE, top, TRUE)
    \/ \E i \in 1..Len(overalls) : OverallSave(i)
    \/ \E u \in Users : Text(u)
    \/ \E u \in adminUserIds, k \in 0..MaxArg : Reset(u, k)

SpecOverall == Init /\ [][NextOverall]_vars

\* the report jobs, whose Telegram requests may fail, between
\* acknowledgements: getChatMemberCount answers a group size or throws (0),
\* sendMessage delivers the report or throws
NextReport ==
    \/ Tick({"report", "monthly"})
    \/ ReportStart
    \/ \E r \in reports, n \in GroupSizes \cup {0}, posted \in BOOLEAN :
          ReportMembers(r, n, posted)
    \/ \E posted \in BOOLEAN : MonthlyReport(posted)
    \/ \E u \in Users : Text(u)

SpecReport == Init /\ [][NextReport]_vars

\* a process zone ahead of config.timezone: midnight has passed for the
\* process when the evening's jobs fire
AheadTzOffset == TzOffset + 1

\* the report jobs and acknowledgements in a deployment whose process zone
\* is ahead of config.timezone, while Telegram answers
NextZones ==
    \/ Tick({"report", "monthly"})
    \/ ReportStart
    \/ \E r \in reports, n \in GroupSizes : ReportMembers(r, n, TRUE)
    \/ MonthlyReportIn(AheadTzOffset, TRUE)
    \/ \E u \in Users : Text(u)

SpecZones == Init /\ [][NextZones]_vars

\* rows of the completions table where the ranking is looked at: enough for
\* two users to differ
LedgerRows == MaxCompletions + 1

\* the ledger and the sessions alone: days pass, users acknowledge, the
\* admin resets
NextRanking ==
    \/ Tick({})
    \/ \E u \in Users : TextWithin(u, LedgerRows)
    \/ \E u \in adminUserIds, k \in 0..MaxArg : Reset(u, k)

SpecRanking == Init /\ [][NextRanking]_vars

\* one campaign from its first delivery to its overall statistics, while
\* S3 and Telegram answer: the delivery job, the deferred callback,
\* acknowledgements and /skip
NextCampaign ==
    \/ Tick({"reading", "overall"})
    \/ ReadingStart
    \/ \E f \in fires : ReadingFinish(f, TRUE, TRUE, TRUE)
    \/ \E i \in 1..Len(timers) : OverallStart(i)
    \/ \E i \in 1..Len(overalls) :
          \E top \in getTopParticipants(completions, progress, TopLimit) :
             OverallCount(i, TRUE, top, TRUE)
    \/ \E i \in 1..Len(overalls) : OverallSave(i)
    \/ \E u \in Users : Text(u)
    \/ \E u \in adminUserIds : Skip(u)

\* the process keeps running: the clock passes, node-cron starts the
\* callbacks that are due, a pending await is answered and a timer that is
\* due runs.  Nothing obliges a user to write or an admin to /skip.
SpecCampaignLive ==
    /\ Init /\ [][NextCampaign]_vars
    /\ WF_vars(Tick({"reading", "overall"}))
    /\ WF_vars(ReadingStart)
    /\ WF_vars(\E f \in fires : ReadingFinish(f, TRUE, TRUE, TRUE))
    /\ WF_vars(\E i \in 1..Len(timers) : OverallStart(i))
    /\ WF_vars(\E i \in 1..Len(overalls) :
                 \E top \in getTopParticipants(completions, progress,
                                                TopLimit) :
                    OverallCount(i, TRUE, top, TRUE))
    /\ WF_vars(\E i \in 1..Len(overalls) : OverallSave(i))

\* the delivery job and /setstart with a new send time
NextSchedule ==
    \/ Tick({"reading"})
    \/ ReadingStart
    \/ \E f \in fires, listed, downloaded, delivered \in BOOLEAN :
          ReadingFinish(f, listed, downloaded, delivered)
    \/ \E u \in adminUserIds, s \in 1..TicksPerDay :
          SetStartWith(u, NULL, TRUE, <<s>>, <<>>)
    \/ \E u \in Users : Text(u)

SpecSchedule == Init /\ [][NextSchedule]_vars

\* the members of the group that are not admins
Outsiders == Users \ adminUserIds

\* acknowledgements, the commands of an admin, and every command with every
\* argument from the other members
NextGate ==
    \/ Tick({})
    \/ \E u \in Outsiders : Text(u)
    \/ \E u \in adminUserIds : Skip(u)
    \/ \E u \in adminUserIds, date \in DateArgs, s \in 1..TicksPerDay :
          SetStartWith(u, date, TRUE, <<s>>, <<>>)
    \/ \E u \in adminUserIds, k \in ImageIndices :
          Send(u, k, TRUE, TRUE, TRUE, TRUE)
    \/ \E u \in Outsiders, k \in IndexArgs : Reset(u, k)
    \/ \E u \in Outsiders, confirm \in BOOLEAN, k \in IndexArgs :
          HardReset(u, confirm, k, 0)
    \/ \E u \in Outsiders : Skip(u)
    \/ \E u \in Outsiders, date \in DateArgs, wellFormed \in BOOLEAN,
          time \in TimeArgs,
          index \in {<<>>} \cup {<<k>> : k \in IndexArgs} :
          SetStartWith(u, date, wellFormed, time, index)
    \/ \E u \in Outsiders, k \in IndexArgs,
          inGroup, listed, downloaded, delivered \in BOOLEAN :
          Send(u, k, inGroup, listed, downloaded, delivered)
    \/ \E u \in Outsiders : Test(u)
    \/ \E u \in Outsiders : ScheduleInfo(u)

SpecGate == Init /\ [][NextGate]_vars

\* acknowledgements and an admin's /reset, /hardreset and /setstart with
\* every argument, well-formed or not
NextValidate ==
    \/ Tick({})
    \/ \E u \in Outsiders : Text(u)
    \/ \E u \in adminUserIds, k \in IndexArgs : Reset(u, k)
    \/ \E u \in adminUserIds, confirm \in BOOLEAN, k \in IndexArgs :
          HardReset(u, confirm, k, 0)
    \/ \E u \in adminUserIds, date \in DateArgs, wellFormed \in BOOLEAN,
          time \in TimeArgs,
          index \in {<<>>} \cup {<<k>> : k \in IndexArgs} :
          SetStartWith(u, date, wellFormed, time, index)

SpecValidate == Init /\ [][NextValidate]_vars

\* the report jobs with a database that may refuse a row, and
\* acknowledgements
NextPersist ==
    \/ Tick({"report", "monthly"})
    \/ ReportStart
    \/ \E r \in reports, n \in GroupSizes, stored, posted \in BOOLEAN :
          ReportMembersWith(r, n, stored, posted)
    \/ \E stored, posted \in BOOLEAN :
          MonthlyReportWith(ServerTzOffset, stored, posted)
    \/ \E u \in Users : Text(u)

SpecPersist == Init /\ [][NextPersist]_vars

\* /hardreset, with any statement of its transaction failing, among the
\* operations it could cut across: deliveries suspended at an await,
\* acknowledgements, /skip and the daily and monthly reports
NextIsolation ==
    \/ Tick({"reading", "report", "monthly"})
    \/ ReadingStart
    \/ \E f \in fires : ReadingFinish(f, TRUE, TRUE, TRUE)
    \/ ReportStart
    \/ \E r \in reports, n \in ChatMemberCounts : ReportMembers(r, n, TRUE)
    \/ MonthlyReport(TRUE)
    \/ \E u \in Outsiders : Text(u)
    \/ \E u \in adminUserIds : Skip(u)
    \/ \E u \in adminUserIds, failAt \in FailPoints :
          HardReset(u, TRUE, 0, failAt)

SpecIsolation == Init /\ [][NextIsolation]_vars

\* a bucket of two images whose file names give the indices 1 and 3
GappedIndices == {1, 3}

\* the delivery job over the bucket with a gap, its collaborators answering,
\* and acknowledgements
NextGaps ==
    \/ Tick({"reading"})
    \/ ReadingStart
    \/ \E f \in fires : ReadingFinishOf(GappedIndices, f, TRUE, TRUE, TRUE)
    \/ \E u \in Users : Text(u)

\* cron fires the job at each send time, and S3 and Telegram answer
SpecGapsLive ==
    /\ Init /\ [][NextGaps]_vars
    /\ WF_vars(Tick({"reading"}))
    /\ WF_vars(ReadingStart)
    /\ WF_vars(\E f \in fires :
                  ReadingFinishOf(GappedIndices, f, TRUE, TRUE, TRUE))

\* the sessions: the delivery job and the report jobs while their
\* collaborators answer, and the admin's /skip, /reset and /setstart
NextSessions ==
    \/ Tick({"reading", "report", "monthly"})
    \/ ReadingStart
    \/ \E f \in fires : ReadingFinish(f, TRUE, TRUE, TRUE)
    \/ ReportStart
    \/ \E r \in reports, n \in ChatMemberCounts : ReportMembers(r, n, TRUE)
    \/ MonthlyReport(TRUE)
    \/ \E u \in adminUserIds : Skip(u)
    \/ \E u \in adminUserIds, k \in 0..MaxArg : Reset(u, k)
    \/ \E u \in adminUserIds, k \in 0..MaxArg :
          SetStart(u, NULL, TRUE, <<k>>)

SpecSessions == Init /\ [][NextSessions]_vars

\* the delivery job, whose S3 and Telegram requests may fail, with the
\* admin's /reset and /hardreset arriving while a callback is suspended at
\* an await, and acknowledgements.  cron starts one callback in a tick and
\* the clock waits for it, so a session inserted while a callback is
\* suspended was inserted after that callback read currentIndex.
NextStale ==
    \/ Tick({"reading"})
    \/ ReadingStart
    \/ \E f \in fires, listed, downloaded, delivered \in BOOLEAN :
          ReadingFinish(f, listed, downloaded, delivered)
    \/ \E u \in adminUserIds, k \in 0..MaxArg : fires # {} /\ Reset(u, k)
    \/ \E u \in adminUserIds, k \in 0..MaxArg :
          fires # {} /\ HardReset(u, TRUE, k, 0)
    \/ \E u \in Users : Text(u)

SpecStale == Init /\ [][NextStale]_vars

\* one session under the delivery job, whose S3 and Telegram requests and
\* whose write of the pointer may fail, the admin's /skip and
\* acknowledgements
NextOnce ==
    \/ Tick({"reading"})
    \/ ReadingStart
    \/ \E f \in fires, listed, downloaded, delivered \in BOOLEAN :
          ReadingFinish(f, listed, downloaded, delivered)
    \/ \E f \in fires : ReadingFinishUnwritten(f)
    \/ \E u \in adminUserIds : Skip(u)
    \/ \E u \in Users : Text(u)

SpecOnce == Init /\ [][NextOnce]_vars

----------------------------------------------------------------------------
(* The store that keeps one fixed progress row (id = 1) *)

\* resetProgress(newIndex) of the fixed-row store:
\* UPDATE progress SET current_index = ?, last_sent_date = NULL WHERE id = 1
resetProgressFixed(p, newIndex) ==
    [i \in 1..Len(p) |->
        IF p[i].id = 1
        THEN [p[i] EXCEPT !.current_index = newIndex,
                          !.last_sent_date = NULL]
        ELSE p[i]]

\* getUserCompletionCount(userId) of the fixed-row store:
\* SELECT COUNT(*) FROM completions WHERE user_id = ?
getUserCompletionCountFixed(c, userId) ==
    Cardinality({i \in 1..Len(c) : c[i].user_id = userId})

\* the rows of SELECT user_id, COUNT(*) as count FROM completions GROUP BY
\* user_id
TopGroupsFixed(c) ==
    {[user_id |-> u, count |-> getUserCompletionCountFixed(c, u)] :
        u \in {c[i].user_id : i \in 1..Len(c)}}

\* getTopParticipants(limit) of the fixed-row store: the lists ORDER BY count
\* DESC LIMIT ? may return
getTopParticipantsFixed(c, limit) ==
    {SubSeq(s, 1, Min(limit, Len(s))) :
        s \in {o \in Orderings(TopGroupsFixed(c)) :
                 \A i, j \in 1..Len(o) : i < j => o[i].count >= o[j].count}}

\* getAllDailyStats() of the fixed-row store:
\* SELECT * FROM daily_stats ORDER BY date
getAllDailyStatsFixed(ds) == ds

\* the rows calculateMonthlyStats of the fixed-row store aggregates:
\* WHERE date >= startDate AND date < endDate
MonthlyRowsFixed(ds, year, month) ==
    LET monthStart == MonthStart(year, month)
        endDate == IF month = 12 THEN MonthStart(year + 1, 1)
                   ELSE MonthStart(year, month + 1)
    IN {r \in ds : r.date >= monthStart /\ r.date < endDate}

\* calculateMonthlyStats(year, month) of the fixed-row store: the set holding
\* its result, empty when it returns null
calculateMonthlyStatsFixed(ds, year, month) ==
    LET rows == MonthlyRowsFixed(ds, year, month)
    IN IF Cardinality(rows) = 0 THEN {}
       ELSE {[reading_days |-> Cardinality(rows),
              total_days |-> DaysInMonth(year, month),
              total_completions |-> SumCompleted(rows),
              average_rate |-> RoundDiv(SumRate(rows), Cardinality(rows))]}

\* /reset [index] from user u over the fixed-row store
ResetFixed(u, newIndex) ==
    /\ progress' = IF resetReply(u, newIndex) = "ok"
                   THEN resetProgressFixed(progress, newIndex)
                   ELSE progress
    /\ UNCHANGED <<now, cronDone, progressSeq, completions, daily_stats,
                   monthly_stats, overall_stats, startDate, startIndex,
                   sendTime, fires, reports, overalls, timers, sent,
                   messages>>

\* the monthly-report callback over the fixed-row store
MonthlyReportFixed(posted) ==
    /\ "monthly" \in DueJobs(now) \ cronDone
    /\ cronDone' = cronDone \cup {"monthly"}
    /\ LET today == Calendar(ServerDate(now))
           tomorrow == Calendar(ServerDate(now) + 1)
           stats == calculateMonthlyStatsFixed(daily_stats, today.year,
                                               today.month)
       IN IF tomorrow.day = 1 /\ stats # {}
          THEN /\ monthly_stats' =
                     saveMonthlyStats(monthly_stats, today.year, today.month,
                                      CHOOSE x \in stats : TRUE)
               /\ messages' =
                     IF posted
                     THEN messages \cup
                            {[kind |-> "monthly", date |-> ServerDate(now),
                              completed |-> (CHOOSE x \in stats :
                                               TRUE).total_completions]}
                     ELSE messages
          ELSE /\ posted
               /\ UNCHANGED <<monthly_stats, messages>>
    /\ UNCHANGED <<now, progress, progressSeq, completions, daily_stats,
                   overall_stats, startDate, startIndex, sendTime, fires,
                   reports, overalls, timers, sent>>

\* the fixed-row store under the jobs, while their collaborators answer,
\* acknowledgements and /reset.  On a table whose one row has id 1,
\* getProgress and updateProgress of the two stores do the same.
NextFixedRow ==
    \/ Tick({"reading", "report", "monthly"})
    \/ ReadingStart
    \/ \E f \in fires : ReadingFinish(f, TRUE, TRUE, TRUE)
    \/ ReportStart
    \/ \E r \in reports, n \in ChatMemberCounts : ReportMembers(r, n, TRUE)
    \/ MonthlyReportFixed(TRUE)
    \/ \E u \in Users : Text(u)
    \/ \E u \in adminUserIds, k \in 0..MaxArg : ResetFixed(u, k)

SpecFixedRow == Init /\ [][NextFixedRow]_vars

----------------------------------------------------------------------------
(* The completion ledger *)

\* the dates a completion may carry
Dates == 0..getTodayDate(MaxTick)

\* the rows of table c for user u and date d
RowsFor(c, u, d) == {i \in 1..Len(c) : c[i].user_id = u /\ c[i].date = d}

\* C1: in every reachable state, whatever deliveries, skips and resets ran
\* in between, completions holds at most one row per (user, date); a call
\* recordCompletion(u, d) inserts exactly one row and returns true when no
\* row for (u, d) exists, returns false and leaves the table as it is when
\* one exists, so two calls leave exactly one row and the second is false.
C1_OneRowPerUserAndDate ==
    /\ \A u \in Users, d \in Dates :
          Cardinality(RowsFor(completions, u, d)) <= 1
    /\ \A u \in Users, d \in Dates :
          LET first == recordCompletion(completions, u, d, now)
              second == recordCompletion(first.completions, u, d, now)
          IN /\ RowsFor(completions, u, d) = {} =>
                  /\ first.recorded
                  /\ Len(first.completions) = Len(completions) + 1
                  /\ SubSeq(first.completions, 1, Len(completions))
                        = completions
                  /\ RowsFor(first.completions, u, d)
                        = {Len(first.completions)}
             /\ RowsFor(completions, u, d) # {} =>
                  /\ ~first.recorded
                  /\ first.completions = completions
             /\ ~second.recorded
             /\ second.completions = first.completions
             /\ Cardinality(RowsFor(second.completions, u, d)) = 1

\* C1 witness: a user acknowledged today, after a delivery and a soft reset,
\* so the next acknowledgement of the day is the duplicate
C1_Acknowledged ==
    /\ \E u \in Users : RowsFor(completions, u, getTodayDate(now)) # {}
    /\ Len(sent) > 0
    /\ Len(progress) > 1

----------------------------------------------------------------------------
(* The pointer *)

\* C2: when a delivery fire that read currentIndex is still awaiting its
\* fetch or send while later writers advance the pointer, the write that
\* logically happened last wins: the fire's earlier-read nextIndex never
\* overwrites a later advance, so the step that ends a fire never leaves
\* the pointer below where it stood.
C2_LastAdvanceWins ==
    [][\A f \in fires :
          fires' = fires \ {f} =>
              getCurrentIndex(progress') >= getCurrentIndex(progress)]_vars

\* C2 witness: a fire holds a nextIndex that later advances have overtaken
C2_Overtaken ==
    \E f \in fires :
        /\ f.currentIndex + 1 < getCurrentIndex(progress)
        /\ scheduleDailyReading(f.currentIndex, TRUE, TRUE, TRUE)
              \in {"sent", "lastSent"}

\* C3: as long as the active session is the same one (no soft or hard reset
\* in between), no step lowers its currentIndex: not a delivery, not /skip,
\* not /setstart with a start index.
C3_MonotoneBetweenResets ==
    [][getProgress(progress').id = getProgress(progress).id =>
          getCurrentIndex(progress') >= getCurrentIndex(progress)]_vars

\* C3 witness: the pointer of the first session has been advanced
C3_Advanced ==
    /\ getProgress(progress).id = 1
    /\ getCurrentIndex(progress) > 0

\* C9: a fire that read currentIndex = totalCount - 1 and delivered sets
\* currentIndex to totalCount and schedules exactly one overall-statistics
\* callback; a fire that read currentIndex >= totalCount delivers nothing,
\* schedules nothing and leaves the database as it is.
C9_LastDeliverySchedulesOverall ==
    [][\A f \in fires :
          /\ (/\ f.currentIndex = getTotalImageCount(TRUE) - 1
              /\ ReadingFinish(f, TRUE, TRUE, TRUE)) =>
                 /\ getCurrentIndex(progress') = getTotalImageCount(TRUE)
                 /\ sent' = Append(sent, getTotalImageCount(TRUE))
                 /\ timers' = Append(timers,
                                     now + OverallDelayDays * TicksPerDay)
          /\ \A listed, downloaded, delivered \in BOOLEAN :
                (/\ f.currentIndex >= getTotalImageCount(TRUE)
                 /\ ReadingFinish(f, listed, downloaded, delivered)) =>
                    UNCHANGED <<tables, sent, timers>>]_vars

\* C9 witness: the last image went out on an earlier day, one callback is
\* pending, and today's fire has come and gone
C9_CampaignOver ==
    /\ getCurrentIndex(progress) = getTotalImageCount(TRUE)
    /\ Len(sent) > 0 /\ sent[Len(sent)] = getTotalImageCount(TRUE)
    /\ Len(timers) = 1
    /\ getProgress(progress).last_sent_date # NULL
    /\ getProgress(progress).last_sent_date < getTodayDate(now)
    /\ "reading" \in cronDone /\ fires = {}

\* C10: a fire whose listing, download or send failed ends there: it leaves
\* currentIndex and last_sent_date (the whole database) as they were, sends
\* nothing and schedules nothing; and every fire starts from the
\* currentIndex it finds, so the next one attempts the same nextIndex.
C10_AdvanceOnlyAfterSend ==
    [][/\ \A f \in fires : \A listed, downloaded, delivered \in BOOLEAN :
             (/\ ~(listed /\ downloaded /\ delivered)
              /\ ReadingFinish(f, listed, downloaded, delivered)) =>
                 /\ UNCHANGED <<tables, sent, timers>>
                 /\ fires' = fires \ {f}
       /\ ReadingStart =>
             \A f \in fires' \ fires :
                 f.currentIndex = getCurrentIndex(progress)]_vars

\* C10 witness: today's fire found an image to send and ended without an
\* advance: the first session was never written to
C10_FailedFire ==
    /\ "reading" \in cronDone /\ fires = {}
    /\ startDate = NULL
    /\ Len(progress) = 1 /\ getProgress(progress).id = 1
    /\ getProgress(progress).last_sent_date = NULL
    /\ getCurrentIndex(progress) < getTotalImageCount(TRUE)
    /\ sent = <<>>

----------------------------------------------------------------------------
(* Session scoping *)

\* the months of the dates the clock covers
Months == {<<Calendar(d).year, Calendar(d).month>> : d \in Dates}

C5_NoLeakAcrossReset ==
    LET since == getProgress(progress).created_at
        own(u) == {i \in 1..Len(completions) :
                     /\ completions[i].user_id = u
                     /\ completions[i].completed_at >= since}
    IN /\ \A u \in Users :
             getUserCompletionCount(completions, progress, u)
               <= Cardinality(own(u))
       /\ \A top \in getTopParticipants(completions, progress, TopLimit) :
             \A k \in 1..Len(top) :
                 top[k].count <= Cardinality(own(top[k].user_id))

\* C5 witness: a soft reset came after a completion was recorded
C5_ResetAfterCompletion ==
    /\ Len(progress) > 1
    /\ \E i \in 1..Len(completions) :
          completions[i].completed_at < getProgress(progress).created_at

----------------------------------------------------------------------------
(* The resets *)

\* C6: a hard reset that succeeds, from whatever state, leaves completions,
\* daily_stats, monthly_stats and overall_stats empty and exactly one
\* session, whose current_index is the index given and whose
\* last_sent_date is NULL.
C6_HardResetEmptiesAll ==
    [][\A u \in adminUserIds, k \in 0..MaxArg :
          HardReset(u, TRUE, k, 0) =>
              /\ hardResetAllData(db, k, now, 0).ok
              /\ completions' = <<>>
              /\ daily_stats' = {}
              /\ monthly_stats' = {}
              /\ overall_stats' = <<>>
              /\ Len(progress') = 1
              /\ progress'[1].current_index = k
              /\ progress'[1].last_sent_date = NULL]_vars

\* C6 witness: a hard reset has emptied the tables whose daily, monthly and
\* overall rows the group was told about
C6_AfterHardReset ==
    /\ Len(progress) = 1 /\ progress[1].id > 1
    /\ completions = <<>> /\ daily_stats = {}
    /\ monthly_stats = {} /\ overall_stats = <<>>
    /\ overalls = <<>>
    /\ \E m \in messages : m.kind = "daily" /\ m.completed > 0
    /\ \E m \in messages : m.kind = "monthly"
    /\ \E m \in messages : m.kind = "overall"

\* C7: hard reset is all-or-nothing: whichever statement of the transaction
\* throws, hardResetAllData leaves every table as it was and returns false,
\* and /hardreset answers that the reset failed.
C7_HardResetAllOrNothing ==
    \A k \in 0..MaxArg, failAt \in FailPoints \ {0} :
        LET r == hardResetAllData(db, k, now, failAt)
        IN /\ r.db = db
           /\ ~r.ok
           /\ \A u \in adminUserIds :
                 hardresetReply(u, TRUE, k, r.ok) = "failed"

\* C7 witness: every table holds rows a partial hard reset would lose
C7_NothingEmpty ==
    /\ completions # <<>> /\ daily_stats # {}
    /\ monthly_stats # {} /\ overall_stats # <<>>
    /\ getCurrentIndex(progress) > 0

\* C8: /reset k starts a new active session with current_index k, no
\* last_sent_date and created_at now; the session rows there were and every
\* completions, daily_stats, monthly_stats and overall_stats row stay as
\* they are, so getDailyStats and getMonthlyStats answer as before.
C8_SoftResetKeepsHistory ==
    [][\A u \in adminUserIds, k \in 0..MaxArg :
          Reset(u, k) =>
              /\ Len(progress') = Len(progress) + 1
              /\ SubSeq(progress', 1, Len(progress)) = progress
              /\ getProgress(progress') = progress'[Len(progress')]
              /\ getProgress(progress').id
                    \notin {progress[i].id : i \in 1..Len(progress)}
              /\ getProgress(progress').current_index = k
              /\ getProgress(progress').last_sent_date = NULL
              /\ getProgress(progress').created_at = now
              /\ UNCHANGED <<completions, daily_stats, monthly_stats,
                             overall_stats>>
              /\ \A d \in Dates :
                    getDailyStats(daily_stats', d)
                      = {r \in daily_stats : r.date = d}
              /\ \A ym \in Months :
                    getMonthlyStats(monthly_stats', ym[1], ym[2])
                      = {r \in monthly_stats :
                           r.year = ym[1] /\ r.month = ym[2]}]_vars

\* C8 witness: a session was just started over tables that all hold rows
C8_AfterSoftReset ==
    /\ Len(progress) > 1
    /\ getProgress(progress).created_at = now
    /\ getProgress(progress).last_sent_date = NULL
    /\ completions # <<>> /\ daily_stats # {}
    /\ monthly_stats # {} /\ overall_stats # <<>>


----------------------------------------------------------------------------
(* The overall statistics *)

\* C11: each time the active session's currentIndex reaches the number of
\* images, one new overall_stats row is eventually appended once the day of
\* delay has passed, as long as the process keeps running (here: whenever
\* the clock still has that day to run).
C11_CompletionGetsOverallStat ==
    \A n \in 0..MaxTick :
        [](  (/\ getCurrentIndex(progress) = getTotalImageCount(TRUE)
              /\ now + OverallDelayDays * TicksPerDay <= MaxTick
              /\ Len(overall_stats) = n)
           => <>(Len(overall_stats) > n))

\* C11 witness: the pointer reached the last image through /skip: nothing
\* was sent, no timer is pending and the clock has run out
C11_CompletedBySkip ==
    /\ getCurrentIndex(progress) = getTotalImageCount(TRUE)
    /\ sent = <<>> /\ timers = <<>> /\ overalls = <<>>
    /\ overall_stats = <<>>
    /\ now = MaxTick


\* C12: overall_stats is append-only.  A step that is not a hard reset leaves
\* every row there is in its place and unchanged; a step that adds rows adds
\* one, for one call of the overall-statistics job, which ends with it; and
\* saving a row equal to one the table holds appends it all the same.
C12_OverallStatsAppendOnly ==
    [][/\ (\E u \in adminUserIds, k \in 0..TotalImages :
              HardReset(u, TRUE, k, 0))
          \/ /\ Len(overall_stats') >= Len(overall_stats)
             /\ SubSeq(overall_stats', 1, Len(overall_stats)) = overall_stats
       /\ Len(overall_stats') > Len(overall_stats) =>
             /\ Len(overall_stats') = Len(overall_stats) + 1
             /\ Len(overalls') = Len(overalls) - 1
       /\ \A i \in 1..Len(overall_stats) :
             saveOverallStats(overall_stats, overall_stats[i])
               = Append(overall_stats, overall_stats[i])]_vars

\* C12 witness: a campaign's row is in the table while the ledger, the daily
\* statistics and a later session have been written
C12_RowKept ==
    /\ overall_stats # <<>>
    /\ completions # <<>> /\ daily_stats # {}
    /\ Len(progress) > 1


\* C13: the row the overall-statistics job saves has total_days equal to
\* the number of daily_stats rows dated on or after the session's start
\* date, total_completions equal to the sum of their completed_count,
\* average_rate equal to the mean of their completion_rate (to the nearest
\* tenth, each day weighing the same), and top_participants equal to the
\* session-scoped top five of the ledger; the daily rows are those the job
\* read when it started and the top five those it read before its message.
C13_OverallStatAggregates ==
    [][/\ \A i \in 1..Len(timers) :
             OverallStart(i) =>
                LET e == overalls'[Len(overalls')]
                    start == CurrentTimestampDate(
                                 getProgress(progress).created_at)
                    rows == {r \in daily_stats : r.date >= start}
                    n == Cardinality(rows)
                    diff == n * e.average_rate - SumRate(rows)
                IN /\ e.total_days = n
                   /\ e.total_completions = SumCompleted(rows)
                   /\ 2 * diff <= n /\ -2 * diff <= n
       /\ \A i \in 1..Len(overalls) :
             (overalls[i].pc = "count" /\ Len(overalls') = Len(overalls)
                /\ overalls'[i].pc = "save") =>
                /\ overalls'[i].top_participants
                      \in getTopParticipants(completions, progress, TopLimit)
                /\ overalls'[i].total_days = overalls[i].total_days
                /\ overalls'[i].total_completions
                      = overalls[i].total_completions
                /\ overalls'[i].average_rate = overalls[i].average_rate
       /\ \A i \in 1..Len(overalls) :
             OverallSave(i) =>
                LET row == overall_stats'[Len(overall_stats')]
                IN /\ row.total_days = overalls[i].total_days
                   /\ row.total_completions = overalls[i].total_completions
                   /\ row.average_rate = overalls[i].average_rate
                   /\ row.top_participants = overalls[i].top_participants
      ]_vars

\* C13 witness: a saved row aggregates two days of different rates and
\* different group sizes, and names a participant
C13_RowOfTwoDays ==
    \E i \in 1..Len(overall_stats) :
        /\ overall_stats[i].total_days = 2
        /\ overall_stats[i].total_completions > 0
        /\ overall_stats[i].top_participants # <<>>
        /\ \E r, q \in daily_stats :
              /\ r.total_members # q.total_members
              /\ r.completion_rate # q.completion_rate
              /\ r.completed_count > 0 /\ q.completed_count > 0


----------------------------------------------------------------------------
(* The daily and monthly statistics *)

\* the completions rows of date d
RowsOn(d) == {i \in 1..Len(completions) : completions[i].date = d}

\* rate is c / m * 100 to the nearest tenth of a percent, in tenths
IsRate(rate, c, m) ==
    /\ 2 * (rate * m - c * 1000) <= m
    /\ 2 * (c * 1000 - rate * m) <= m

\* C14 as stated: when the daily report fires on date d, getChatMemberCount
\* answers m and completions holds c rows for d, the job saves the row of d
\* with total_members = m, completed_count = c and completion_rate =
\* c / m * 100.
C14_DailyStatOfReportedSize ==
    [][\A r \in reports, m \in GroupSizes, posted \in BOOLEAN :
          ReportMembers(r, m, posted) =>
              \E row \in daily_stats' :
                  /\ row.date = r.today
                  /\ row.total_members = m
                  /\ row.completed_count = Cardinality(RowsOn(r.today))
                  /\ IsRate(row.completion_rate, row.completed_count, m)
      ]_vars

\* C14 amended: the job saves the row of d with total_members = m - 1 (the
\* bot is a member and is not counted), completed_count = c and
\* completion_rate = c / (m - 1) * 100 to one decimal, 0 when m - 1 is not
\* positive; a group of 11 with the bot and 3 completions gives 30.0.
C14_DailyStatExcludesBot ==
    [][/\ \A r \in reports, m \in GroupSizes, posted \in BOOLEAN :
             ReportMembers(r, m, posted) =>
                 \E row \in daily_stats' :
                     /\ row.date = r.today
                     /\ row.total_members = m - 1
                     /\ row.completed_count = Cardinality(RowsOn(r.today))
                     /\ IF m - 1 > 0
                        THEN IsRate(row.completion_rate,
                                    row.completed_count, m - 1)
                        ELSE row.completion_rate = 0
                     /\ \A other \in daily_stats' :
                           other.date = r.today => other = row
       /\ completionRate(3, 11 - 1) = 300
       /\ completionRate(3, 0) = 0
      ]_vars

\* C14 witness: a day's row was saved for a group of three with the bot in
\* which one user had acknowledged
C14_SavedDay ==
    \E row \in daily_stats :
        /\ row.total_members = 2
        /\ row.completed_count = 1
        /\ row.completion_rate = 500
        /\ Cardinality(RowsOn(row.date)) = 1


\* C15: in every reachable state daily_stats holds at most one row per date
\* and monthly_stats at most one per (year, month); saving for a key that
\* is there replaces its row and touches no other, so running the daily
\* computation of a date again over the same ledger and group size leaves
\* the same single row (and likewise for a month).
C15_OneStatPerKey ==
    /\ \A r, q \in daily_stats : r.date = q.date => r = q
    /\ \A r, q \in monthly_stats :
          (r.year = q.year /\ r.month = q.month) => r = q
    /\ \A d \in Dates, n \in GroupSizes \cup {0} :
          LET m == IF n = 0 THEN 0 ELSE n - 1
              c == getCompletionCount(completions, d)
              once == saveDailyStats(daily_stats, d, m, c,
                                     completionRate(c, m))
              twice == saveDailyStats(once, d, m, c, completionRate(c, m))
          IN /\ Cardinality({r \in once : r.date = d}) = 1
             /\ {r \in once : r.date # d}
                   = {r \in daily_stats : r.date # d}
             /\ twice = once
    /\ \A ym \in Months :
          \A st \in calculateMonthlyStats(daily_stats, progress,
                                          ym[1], ym[2]) :
             LET once == saveMonthlyStats(monthly_stats, ym[1], ym[2], st)
                 twice == saveMonthlyStats(once, ym[1], ym[2], st)
                 key(r) == r.year = ym[1] /\ r.month = ym[2]
             IN /\ Cardinality({r \in once : key(r)}) = 1
                /\ {r \in once : ~key(r)} = {r \in monthly_stats : ~key(r)}
                /\ twice = once

\* C15 witness: the month's row was saved before the day's report, so
\* computing the month again would replace it with other figures
C15_StaleMonth ==
    /\ Cardinality(daily_stats) > 1
    /\ \E r \in monthly_stats :
          \E st \in calculateMonthlyStats(daily_stats, progress,
                                          r.year, r.month) :
             st.reading_days # r.reading_days


\* C16: when getChatMemberCount throws during a daily-report fire the job
\* goes on with totalMembers = 0: it saves today's row with the actual
\* completed_count and completion_rate 0, and sends the report.
C16_ReportSurvivesMemberFailure ==
    [][\A r \in reports, posted \in BOOLEAN :
          ReportMembers(r, 0, posted) =>
              /\ \E row \in daily_stats' :
                    /\ row.date = r.today
                    /\ row.total_members = 0
                    /\ row.completed_count = Cardinality(RowsOn(r.today))
                    /\ row.completion_rate = 0
              /\ posted =>
                    \E msg \in messages' :
                        /\ msg.kind = "daily" /\ msg.date = r.today
                        /\ msg.completed = Cardinality(RowsOn(r.today))
              /\ reports' = reports \ {r}
      ]_vars

\* C16 witness: the row and the report of a day on which users
\* acknowledged and the group size could not be read
C16_DegradedDay ==
    \E row \in daily_stats :
        /\ row.total_members = 0 /\ row.completed_count > 0
        /\ row.completion_rate = 0
        /\ \E msg \in messages :
              /\ msg.kind = "daily" /\ msg.date = row.date
              /\ msg.completed = row.completed_count


\* C17: calculateMonthlyStats(y, m) returns null exactly when no daily_stats
\* row is dated in the month y-m on or after the session's start date;
\* otherwise its reading_days is the number of those rows, its
\* total_completions the sum of their completed_count and its average_rate
\* the mean of their completion_rate; and no monthly_stats row with
\* reading_days = 0 is ever stored.
C17_MonthlyStatsOfScopedRows ==
    LET start == CurrentTimestampDate(getProgress(progress).created_at)
        rows(ym) == {r \in daily_stats :
                       /\ r.date >= start
                       /\ Calendar(r.date).year = ym[1]
                       /\ Calendar(r.date).month = ym[2]}
    IN /\ \A ym \in Months :
             LET stats == calculateMonthlyStats(daily_stats, progress,
                                                ym[1], ym[2])
                 n == Cardinality(rows(ym))
             IN /\ stats = {} <=> n = 0
                /\ Cardinality(stats) <= 1
                /\ \A st \in stats :
                      /\ st.reading_days = n
                      /\ st.total_completions = SumCompleted(rows(ym))
                      /\ 2 * (n * st.average_rate - SumRate(rows(ym))) <= n
                      /\ 2 * (SumRate(rows(ym)) - n * st.average_rate) <= n
       /\ \A r \in monthly_stats : r.reading_days > 0

\* C17 witness: a month's row is stored, and after a soft reset the same
\* month has daily rows but none in the new session, so there is nothing
\* to report for it
C17_NothingToReport ==
    /\ \E r \in monthly_stats :
          /\ calculateMonthlyStats(daily_stats, progress, r.year, r.month)
                = {}
          /\ \E q \in daily_stats :
                /\ Calendar(q.date).year = r.year
                /\ Calendar(q.date).month = r.month
    /\ Len(progress) > 1


\* C18: the monthly-report job computes and reports the month's statistics
\* on the last calendar day of the month in config.timezone and on no other
\* day, whatever the process's own zone is: a step that stores or posts a
\* month's figures is taken on a day whose tomorrow, in config.timezone, is
\* the 1st, and the fire of such a day stores and posts the figures of that
\* day's month when it has daily rows.
C18_MonthlyOnLastDay ==
    [][LET today == Calendar(getTodayDate(now))
           tomorrow == Calendar(getTodayDate(now) + 1)
           stats == calculateMonthlyStats(daily_stats, progress,
                                          today.year, today.month)
           fired == "monthly" \in cronDone' \ cronDone
       IN /\ (monthly_stats' # monthly_stats
                 \/ \E msg \in messages' \ messages : msg.kind = "monthly")
               => tomorrow.day = 1
          /\ (fired /\ tomorrow.day = 1 /\ stats # {}) =>
                /\ \E row \in monthly_stats' :
                      /\ row.year = today.year /\ row.month = today.month
                      /\ \E st \in stats :
                            row.reading_days = st.reading_days
                /\ \E msg \in messages' \ messages :
                      /\ msg.kind = "monthly"
                      /\ msg.date = getTodayDate(now)
      ]_vars

\* C18 witness: the evening job of the month's last day in config.timezone
\* has run over a month with daily rows, in a process for which that
\* evening is already the 1st
C18_LastDayPassed ==
    /\ Calendar(getTodayDate(now) + 1).day = 1
    /\ Calendar(ZoneDate(now, AheadTzOffset)).day = 1
    /\ "monthly" \in cronDone
    /\ daily_stats # {}
    /\ monthly_stats = {}


----------------------------------------------------------------------------
(* The ranking *)

\* the completions of user u dated on or after the session's start date
ScopedRows(u) ==
    {i \in 1..Len(completions) :
        /\ completions[i].user_id = u
        /\ completions[i].date
              >= CurrentTimestampDate(getProgress(progress).created_at)}

\* C19: getTopParticipants(limit) returns at most limit entries, one per
\* distinct user, each with that user's number of session-scoped
\* completions, in descending order of count, and no user left out has
\* more completions than a user returned; a user with completions is left
\* out only when the limit is reached.
C19_TopParticipantsRanked ==
    \A limit \in 0..TopLimit :
        /\ getTopParticipants(completions, progress, limit) # {}
        /\ \A top \in getTopParticipants(completions, progress, limit) :
              LET ranked == {top[i].user_id : i \in 1..Len(top)}
              IN /\ Len(top) <= limit
                 /\ \A i, j \in 1..Len(top) :
                       i # j => top[i].user_id # top[j].user_id
                 /\ \A i \in 1..Len(top) :
                       /\ top[i].user_id \in Users
                       /\ top[i].count
                             = Cardinality(ScopedRows(top[i].user_id))
                 /\ \A i, j \in 1..Len(top) :
                       i < j => top[i].count >= top[j].count
                 /\ \A u \in Users \ ranked :
                       /\ \A i \in 1..Len(top) :
                             top[i].count >= Cardinality(ScopedRows(u))
                       /\ Len(top) < limit => ScopedRows(u) = {}

\* C19 witness: two users of the session have acknowledged, one more often
\* than the other
C19_TwoRanks ==
    \E u, v \in Users :
        /\ Cardinality(ScopedRows(u)) > Cardinality(ScopedRows(v))
        /\ Cardinality(ScopedRows(v)) > 0


----------------------------------------------------------------------------
(* The start date *)

\* C20: when config.startDate is set and today, in config.timezone, is
\* before it, a delivery fire does nothing: no image is listed, fetched or
\* sent, and progress, the ledger and the statistics stay as they are.
C20_NoDeliveryBeforeStartDate ==
    [][(/\ ReadingStart
        /\ startDate # NULL
        /\ getTodayDate(now) < startDate) =>
          /\ fires' = fires
          /\ UNCHANGED <<tables, sent, timers, messages>>]_vars

\* C20 witness: today's fire has come and gone before the start date while
\* an image was waiting to be sent
C20_WaitingForStart ==
    /\ startDate # NULL /\ getTodayDate(now) < startDate
    /\ "reading" \in cronDone
    /\ fires = {} /\ sent = <<>>
    /\ getCurrentIndex(progress) < getTotalImageCount(TRUE)
    /\ getProgress(progress).last_sent_date = NULL

----------------------------------------------------------------------------
(* The days of the week *)

\* the values config.excludeDays may hold (0 = Sunday); the scheduler never
\* reads the key
ExcludeConfigs == SUBSET (0..6)

\* C21: for every configuration of excludeDays, the delivery job fires on no
\* excluded day of the week, and on every other day of the week the send time
\* does not pass without a fire.
C21_FiresOffExcludedDaysOnly ==
    [][\A excludeDays \in ExcludeConfigs :
          LET dow == Calendar(getTodayDate(now)).dow
          IN  /\ ReadingStart => dow \notin excludeDays
              /\ (/\ now' = now + 1
                  /\ DaySlots[Slot(now) + 1] = "sendTime"
                  /\ dow \notin excludeDays) => "reading" \in cronDone]_vars

\* C21 witness: the job has fired on a Saturday, a day excludeDays may name
C21_SaturdayFire ==
    /\ Calendar(getTodayDate(now)).dow = 6
    /\ "reading" \in cronDone
    /\ \E f \in fires : f.day = getTodayDate(now)

----------------------------------------------------------------------------
(* Changing the send time *)

\* C22: after /setstart changes the delivery time, the one delivery job fires
\* at the new time and never again at the old one: a fire happens only at the
\* time of day config.sendTime names, that time does not pass on a day from
\* Monday to Saturday without a fire, and the change drops no fire that is in
\* progress.
C22_DeliveryAtNewTime ==
    [][/\ ReadingStart => Slot(now) + 1 = sendTime
       /\ (/\ now' = now + 1
           /\ Slot(now) + 1 = sendTime
           /\ Calendar(getTodayDate(now)).dow \in 1..6)
             => "reading" \in cronDone
       /\ sendTime' # sendTime => fires' = fires]_vars

\* C22 witness: the send time was moved to the evening and the delivery job
\* has fired this morning all the same
C22_FiredAtOldTime ==
    /\ sendTime = 2
    /\ DaySlots[Slot(now) + 1] = "sendTime"
    /\ "reading" \in cronDone
    /\ now = MaxTick

----------------------------------------------------------------------------
(* The admin gate *)

\* the index arguments a command may carry
AnyIndex == {<<>>} \cup {<<k>> : k \in IndexArgs}

\* C23: whatever the arguments, each admin command (/reset, /hardreset,
\* /skip, /setstart, /send, /test, /scheduleinfo) answers a caller outside
\* config.telegram.adminUserIds with the same refusal and changes nothing:
\* progress, ledger, statistics, configuration, schedule, pending callbacks
\* and what the group has received stay as they are, so the state after the
\* command does not depend on the arguments.
C23_OutsidersChangeNothing ==
    \A u \in Outsiders :
        /\ \A k \in IndexArgs :
              /\ resetReply(u, k) = "denied"
              /\ ~ENABLED (Reset(u, k) /\ vars' # vars)
        /\ \A confirm \in BOOLEAN, k \in IndexArgs, failAt \in FailPoints :
              /\ \A success \in BOOLEAN :
                    hardresetReply(u, confirm, k, success) = "denied"
              /\ ~ENABLED (HardReset(u, confirm, k, failAt) /\ vars' # vars)
        /\ ~ENABLED (Skip(u) /\ vars' # vars)
        /\ \A date \in DateArgs, wellFormed \in BOOLEAN, time \in TimeArgs,
              index \in AnyIndex :
              /\ setstartReplyWith(u, date, wellFormed, time, index)
                    = "denied"
              /\ ~ENABLED (/\ SetStartWith(u, date, wellFormed, time, index)
                           /\ vars' # vars)
        /\ \A k \in IndexArgs,
              inGroup, listed, downloaded, delivered \in BOOLEAN :
              /\ sendReply(u, k, listed, downloaded, delivered) = "denied"
              /\ ~ENABLED (/\ Send(u, k, inGroup, listed, downloaded,
                                   delivered)
                           /\ vars' # vars)
        /\ \A connected \in BOOLEAN : testReply(u, connected) = "denied"
        /\ ~ENABLED (Test(u) /\ vars' # vars)
        /\ scheduleinfoReply(u) = "denied"
        /\ ~ENABLED (ScheduleInfo(u) /\ vars' # vars)

\* C23 witness: somebody outside the admins has acknowledged a reading, with
\* the pointer moved, an image sent and more to change: a start
\* date and a send time an admin has set
C23_OutsiderInGroup ==
    /\ \E i \in 1..Len(completions) : completions[i].user_id \in Outsiders
    /\ getCurrentIndex(progress) > 0
    /\ sent # <<>>
    /\ startDate # NULL
    /\ sendTime # 1

----------------------------------------------------------------------------
(* Arguments of the admin commands *)

\* C24: /hardreset from an admin whose first argument is not CONFIRM (absent
\* or any other word) answers the warning and changes no stored state,
\* whatever index follows.
C24_NoDeletionWithoutConfirm ==
    \A u \in adminUserIds, k \in IndexArgs, failAt \in FailPoints :
        /\ \A success \in BOOLEAN :
              hardresetReply(u, FALSE, k, success) = "warning"
        /\ ~ENABLED (HardReset(u, FALSE, k, failAt) /\ vars' # vars)

\* C24 witness: completions are recorded in the second session: there is data
\* a hard reset would delete
C24_DataToDelete ==
    /\ Len(progress) > 1
    /\ completions # <<>>
    /\ now > 0

----------------------------------------------------------------------------
(* Failures of the database in the report jobs *)

\* C26: a report job whose statistic could not be stored sends no report:
\* every daily report the group receives is for a date whose daily_stats row
\* the job has stored, and every monthly report for a month whose
\* monthly_stats row the job has stored.
C26_NoReportWithoutStoredStat ==
    [][\A msg \in messages' \ messages :
          /\ msg.kind = "daily" =>
                \E row \in daily_stats' :
                    /\ row.date = msg.date
                    /\ row.completed_count = msg.completed
          /\ msg.kind = "monthly" =>
                \E row \in monthly_stats' :
                    /\ row.year = Calendar(msg.date).year
                    /\ row.month = Calendar(msg.date).month
                    /\ row.total_completions = msg.completed]_vars

\* C26 witness: the group has the report of a day that has no daily_stats row
C26_ReportOfUnstoredDay ==
    \E msg \in messages :
        /\ msg.kind = "daily"
        /\ getDailyStats(daily_stats, msg.date) = {}
        /\ msg.completed > 0

----------------------------------------------------------------------------
(* Overall statistics of a session without daily rows *)

\* C27: when the session has no session-scoped daily_stats row, the overall
\* statistics are absent: the call that counted no day sends no message and
\* appends no overall_stats row.
C27_NoOverallStatOfNoDays ==
    [][/\ \A i \in 1..Len(overalls) :
             (/\ Len(overalls') = Len(overalls)
              /\ overalls[i].pc = "count"
              /\ overalls'[i].pc = "save") => overalls[i].total_days > 0
       /\ Len(overall_stats') > Len(overall_stats) =>
             overall_stats'[Len(overall_stats')].total_days > 0]_vars

\* C27 witness: overall_stats holds the row of a period of no days, and the
\* group has its message
C27_RowOfNoDays ==
    \E i \in 1..Len(overall_stats) :
        /\ overall_stats[i].total_days = 0
        /\ \E msg \in messages :
              /\ msg.kind = "overall"
              /\ msg.date = overall_stats[i].end_date

----------------------------------------------------------------------------
(* Isolation of the hard reset *)

\* the keys of the rows of the five tables
RowKeys(d) ==
    {<<"progress", d.progress[i].id>> : i \in 1..Len(d.progress)}
    \cup {<<"completions", d.completions[i].user_id, d.completions[i].date>> :
             i \in 1..Len(d.completions)}
    \cup {<<"daily_stats", r.date>> : r \in d.daily_stats}
    \cup {<<"monthly_stats", r.year, r.month>> : r \in d.monthly_stats}
    \cup {<<"overall_stats", i>> : i \in 1..Len(d.overall_stats)}

\* C28: a hard reset is one step for every other operation: whenever a step
\* removes a row from some table, the same step leaves completions and the
\* three statistics tables empty and progress with exactly one row, a new
\* one; and after every step there is a session row, so no acknowledgement,
\* delivery or command sees tables half emptied or no session.
C28_HardResetInOneStep ==
    [][/\ Len(progress') >= 1
       /\ ~(RowKeys(db) \subseteq RowKeys(db')) =>
             /\ completions' = <<>>
             /\ daily_stats' = {}
             /\ monthly_stats' = {}
             /\ overall_stats' = <<>>
             /\ Len(progress') = 1
             /\ progress'[1].id = progressSeq + 1
             /\ progress'[1].last_sent_date = NULL]_vars

\* C28 witness: a hard reset has run while a delivery callback was suspended
\* at an await, with its read of the pointer behind it and its
\* updateProgress ahead
C28_ResetUnderDelivery ==
    /\ fires # {}
    /\ Len(progress) = 1 /\ progress[1].id > 1
    /\ completions = <<>> /\ daily_stats = {}
    /\ messages # {}

----------------------------------------------------------------------------
(* Gaps in the image indices *)

\* C29: over a bucket whose indices have a gap, fires whose S3 and Telegram
\* calls succeed deliver every listed image, in ascending order of index, and
\* the campaign completes: the overall statistics get scheduled.  The clock
\* has a fire for each image of the bucket.
C29_GapsTolerated ==
    /\ [](\A i, j \in 1..Len(sent) : i < j => sent[i] < sent[j])
    /\ <>(Range(sent) = GappedIndices /\ timers # <<>>)

\* C29 witness: the image before the gap is delivered and a later fire has
\* ended without a photo, the pointer still before the gap
C29_StuckAtGap ==
    /\ sent = <<1>>
    /\ getCurrentIndex(progress) = 1
    /\ now = MaxTick /\ "reading" \in cronDone /\ fires = {}
    /\ timers = <<>>

----------------------------------------------------------------------------
(* The active session *)

\* the rows of progress no other row was created after
ActiveSessions ==
    {i \in 1..Len(progress) :
        \A j \in 1..Len(progress) : progress[j].id <= progress[i].id}

\* C30: from initialization on, progress has at least one row and exactly
\* one active session, the row created last; getCurrentIndex answers its
\* current_index, which is config.startIndex as long as the first session has
\* not been written; and updateProgress, whatever index it is given, writes
\* that row and no other.
C30_OneActiveSession ==
    /\ Len(progress) >= 1
    /\ Cardinality(ActiveSessions) = 1
    /\ \A a \in ActiveSessions :
          /\ progress[a].id = progressSeq
          /\ \A j \in 1..Len(progress) :
                progress[j].created_at <= progress[a].created_at
          /\ getProgress(progress) = progress[a]
          /\ getCurrentIndex(progress) = progress[a].current_index
          /\ (progressSeq = 1 /\ progress[a].last_sent_date = NULL)
                => getCurrentIndex(progress) = startIndex
          /\ \A newIndex \in 0..MaxIndex :
                LET after == updateProgress(progress, newIndex, now)
                IN  /\ Len(after) = Len(progress)
                    /\ after[a] = [progress[a] EXCEPT
                                     !.current_index = newIndex,
                                     !.last_sent_date = getTodayDate(now)]
                    /\ \A j \in 1..Len(progress) :
                          j # a => after[j] = progress[j]

\* C30 witness: the second session has been written on a later day and the
\* first keeps another index and its own date
C30_TwoSessionsOneWritten ==
    /\ Len(progress) = 2
    /\ progress[2].last_sent_date # NULL
    /\ progress[1].last_sent_date # NULL
    /\ progress[1].last_sent_date # progress[2].last_sent_date
    /\ progress[1].current_index # progress[2].current_index

----------------------------------------------------------------------------
(* The session rows *)

\* C31: created_at of a session never changes once the row is inserted: a
\* delivery, /skip, /setstart and the report jobs leave the created_at of
\* every session row as it was, and /reset leaves every earlier session row
\* (its created_at and its current_index with it) as it was.
C31_CreatedAtImmutable ==
    [][/\ \A i \in 1..Len(progress), j \in 1..Len(progress') :
             progress'[j].id = progress[i].id =>
                 progress'[j].created_at = progress[i].created_at
       /\ \A u \in adminUserIds, k \in 0..MaxArg :
             Reset(u, k) =>
                 /\ Len(progress') = Len(progress) + 1
                 /\ \A i \in 1..Len(progress) :
                       /\ progress'[i].id = progress[i].id
                       /\ progress'[i].created_at = progress[i].created_at
                       /\ progress'[i].current_index
                             = progress[i].current_index]_vars

\* C31 witness: a session that was advanced on a day after its start was
\* followed by a soft reset, the new session was written to as well, and a
\* report job has run
C31_TwoSessionsWritten ==
    /\ Len(progress) = 2
    /\ progress[1].current_index > 0
    /\ progress[1].last_sent_date # NULL
    /\ progress[1].last_sent_date > CurrentTimestampDate(progress[1].created_at)
    /\ progress[2].last_sent_date # NULL
    /\ progress[2].created_at > progress[1].created_at
    /\ daily_stats # {}

----------------------------------------------------------------------------
(* The fixed-row store *)

\* C32: in the store that keeps one fixed progress row, session scoping
\* holds after a soft reset: once /reset k has run, the per-user count, the
\* top participants, getAllDailyStats and calculateMonthlyStats leave out
\* every row dated before the day of the reset.
C32_FixedRowStillScoped ==
    [][\A a \in adminUserIds, k \in 0..MaxArg :
          ResetFixed(a, k) =>
              LET resetDay == CurrentTimestampDate(now)
                  scoped(u) == {i \in 1..Len(completions') :
                                  /\ completions'[i].user_id = u
                                  /\ completions'[i].date >= resetDay}
              IN /\ \A u \in Users :
                       getUserCompletionCountFixed(completions', u)
                         = Cardinality(scoped(u))
                 /\ \A top \in getTopParticipantsFixed(completions',
                                                       TopLimit) :
                       \A j \in 1..Len(top) :
                           top[j].count = Cardinality(scoped(top[j].user_id))
                 /\ \A r \in getAllDailyStatsFixed(daily_stats') :
                       r.date >= resetDay
                 /\ \A ym \in Months :
                       \A st \in calculateMonthlyStatsFixed(daily_stats',
                                                            ym[1], ym[2]) :
                           st.reading_days =
                             Cardinality({r \in daily_stats' :
                                 /\ r.date >= resetDay
                                 /\ Calendar(r.date).year = ym[1]
                                 /\ Calendar(r.date).month = ym[2]})]_vars

\* C32 witness: the one row was reset after a delivery (the pointer is back
\* at 0 with no last_sent_date and its created_at is the one it was given at
\* startup) while the tables hold a completion and a daily row of an earlier
\* day, which the queries still count
C32_ResetOverOldRows ==
    /\ sent # <<>>
    /\ Len(progress) = 1 /\ progress[1].id = 1
    /\ progress[1].current_index = 0
    /\ progress[1].last_sent_date = NULL
    /\ progress[1].created_at = 0
    /\ \E i \in 1..Len(completions) :
          /\ completions[i].date < CurrentTimestampDate(now)
          /\ getUserCompletionCountFixed(completions,
                                         completions[i].user_id) > 0
    /\ \E r \in getAllDailyStatsFixed(daily_stats) :
          r.date < CurrentTimestampDate(now)

----------------------------------------------------------------------------
(* Deliveries across a reset *)

\* C33: a delivery fire that read currentIndex before a soft or hard reset
\* to index k does not write its stale nextIndex into the session the reset
\* created: when the active session was inserted while the fire was
\* suspended (under SpecStale: it was inserted in this tick and has not been
\* written to), the step that ends the fire leaves that session's
\* current_index at k.
C33_NoStaleWriteAfterReset ==
    [][\A f \in fires :
          (/\ fires' = fires \ {f}
           /\ getProgress(progress).id > 1
           /\ getProgress(progress).created_at = now
           /\ getProgress(progress).last_sent_date = NULL) =>
              /\ getProgress(progress').id = getProgress(progress).id
              /\ getCurrentIndex(progress') = getCurrentIndex(progress)]_vars

\* C33 witness: a reset has inserted a session while a fire that will
\* deliver is suspended
C33_ResetUnderFire ==
    /\ getProgress(progress).id > 1
    /\ getProgress(progress).created_at = now
    /\ getProgress(progress).last_sent_date = NULL
    /\ \E f \in fires :
          scheduleDailyReading(f.currentIndex, TRUE, TRUE, TRUE)
              \in {"sent", "lastSent"}

----------------------------------------------------------------------------
(* Deliveries within a session *)

\* C34: within one session the delivery job sends each index at most once:
\* whatever the interleaving of fires and /skip, and whichever of the S3 and
\* Telegram calls or the write of the pointer after a send fails, the group
\* never receives the same index twice.
C34_EachIndexOnce ==
    \A i, j \in 1..Len(sent) : i # j => sent[i] # sent[j]

\* C34 witness: in the first session, never written to, the group has
\* received the same image on two days
C34_SentTwice ==
    /\ Len(progress) = 1 /\ getProgress(progress).id = 1
    /\ getProgress(progress).last_sent_date = NULL
    /\ Len(sent) = 2 /\ sent[1] = sent[2]

----------------------------------------------------------------------------
(* The overall statistics across a reset *)

\* C35: the overall_stats row the deferred callback appends describes the
\* campaign whose last delivery scheduled it, also when /reset came during
\* the day of delay: its start_date is the created_at of a session that was
\* delivered to its end, never that of a session the reset started since.
C35_OverallStatOfFinishedCampaign ==
    [][Len(overall_stats') > Len(overall_stats) =>
          \E i \in 1..Len(progress) :
              /\ progress[i].created_at
                    = overall_stats'[Len(overall_stats')].start_date
              /\ progress[i].last_sent_date # NULL
              /\ progress[i].current_index = getTotalImageCount(TRUE)]_vars

\* C35 witness: the first session was delivered to its end, a soft reset
\* followed, and the row appended since carries the start of the new
\* session, which has delivered nothing
C35_RowOfNewSession ==
    /\ Len(progress) = 2
    /\ progress[1].current_index = getTotalImageCount(TRUE)
    /\ progress[1].last_sent_date # NULL
    /\ progress[2].last_sent_date = NULL
    /\ progress[2].created_at > progress[1].created_at
    /\ overall_stats # <<>>
    /\ overall_stats[Len(overall_stats)].start_date = progress[2].created_at

----------------------------------------------------------------------------
(* The month's last day *)

\* the daily rows of the active session dated in the month of day d
DailyRowsOfMonth(d) ==
    {r \in getAllDailyStats(daily_stats, progress) :
        /\ Calendar(r.date).year = Calendar(d).year
        /\ Calendar(r.date).month = Calendar(d).month}

\* C36: the monthly_stats row saved for a month counts the daily row of the
\* month's last day: once the monthly job and the daily report of the last
\* evening have both run, the stored reading_days is the number of the
\* session's daily_stats rows dated in the month.
C36_MonthlyStatIncludesLastDay ==
    LET today == getTodayDate(now)
    IN (/\ Calendar(today + 1).day = 1
        /\ {"monthly", "report"} \subseteq cronDone
        /\ reports = {}) =>
           \A m \in getMonthlyStats(monthly_stats, Calendar(today).year,
                                    Calendar(today).month) :
               m.reading_days = Cardinality(DailyRowsOfMonth(today))

\* C36 witness: both jobs of the month's last evening have run, the last
\* day has its daily row, and the month's saved row counts one day less
\* than the month has rows
C36_LastDayLeftOut ==
    LET today == getTodayDate(now)
    IN /\ Calendar(today + 1).day = 1
       /\ {"monthly", "report"} \subseteq cronDone
       /\ reports = {}
       /\ getDailyStats(daily_stats, today) # {}
       /\ \E m \in getMonthlyStats(monthly_stats, Calendar(today).year,
                                   Calendar(today).month) :
             m.reading_days + 1 = Cardinality(DailyRowsOfMonth(today))

----------------------------------------------------------------------------
(* The calendar of the session start *)

\* the calendar day of config.timezone on which the active session was
\* inserted
ResetDay == getTodayDate(getProgress(progress).created_at)

\* C37: the start date the scoped queries filter by is a date of the
\* calendar the completions and daily rows are dated in (config.timezone):
\* after a reset, the per-user count counts exactly the user's completions
\* dated on or after the day of the reset in that calendar, and
\* getAllDailyStats returns exactly the daily rows dated on or after it, so
\* no row recorded after the reset is left out and no row of an earlier day
\* is let in.
C37_StartDateInConfiguredCalendar ==
    getProgress(progress).id > 1 =>
        /\ \A u \in Users :
              getUserCompletionCount(completions, progress, u)
                = Cardinality({i \in 1..Len(completions) :
                                 /\ completions[i].user_id = u
                                 /\ completions[i].date >= ResetDay})
        /\ getAllDailyStats(daily_stats, progress)
              = {r \in daily_stats : r.date >= ResetDay}

\* C37 witness: the admin reset in the morning, when config.timezone is a
\* day ahead of UTC, and the user's completion of the day before is counted
\* in the new session
C37_YesterdayCounted ==
    /\ getProgress(progress).id > 1
    /\ sessionStartDate(progress) < ResetDay
    /\ \E i \in 1..Len(completions) :
          /\ completions[i].date < ResetDay
          /\ getUserCompletionCount(completions, progress,
                                    completions[i].user_id) > 0

----------------------------------------------------------------------------
(* Daily rows and late acknowledgements *)

\* C38: in every reachable state, each daily_stats row carries the number
\* of completions the ledger holds for its date: an acknowledgement recorded
\* for the day after the day's report has run is reflected in the day's row.
C38_DailyStatTracksLedger ==
    \A r \in daily_stats :
        r.completed_count = getCompletionCount(completions, r.date)

\* C38 witness: this evening's report has stored today's row, and a user
\* acknowledged afterwards, before midnight: the ledger holds one completion
\* more for today than the row says
C38_LateAcknowledgement ==
    /\ "report" \in cronDone /\ reports = {}
    /\ \E r \in getDailyStats(daily_stats, getTodayDate(now)) :
          r.completed_count + 1
             = getCompletionCount(completions, getTodayDate(now))
    /\ \E i \in 1..Len(completions) :
          /\ completions[i].date = getTodayDate(now)
          /\ completions[i].completed_at = now

----------------------------------------------------------------------------
(* The pointer and the end of the content *)

\* C39: in every reachable state the pointer is within the content:
\* 0 <= current_index <= totalCount, whatever deliveries, /skip, /reset,
\* /hardreset and /setstart ran, so the remaining count /status shows is
\* never negative.
C39_PointerWithinContent ==
    /\ 0 <= getCurrentIndex(progress)
    /\ getCurrentIndex(progress) <= getTotalImageCount(TRUE)
    /\ statusRemaining(progress, TRUE) >= 0

\* C39 witness: every image was delivered and the admin's /skip has moved
\* the pointer past the last one
C39_SkippedPastEnd ==
    /\ Len(sent) = getTotalImageCount(TRUE)
    /\ getCurrentIndex(progress) > getTotalImageCount(TRUE)
    /\ statusRemaining(progress, TRUE) < 0

====
